---- MODULE Spec2Model ----
(***************************************************************************)
(* A state-machine model of the job-search aggregation engine of           *)
(* immermatch: the query orchestrator (search_all_queries), the combined   *)
(* fan-out provider (CombinedSearchProvider.search), the routing-prefix    *)
(* parser (parse_provider_query) and the retry loops of the               *)
(* Bundesagentur client (_get_with_retry, _fetch_detail_api,               *)
(* _fetch_detail).                                                         *)
(*                                                                         *)
(* Python strings are TLA+ strings (sequences of characters): Len, SubSeq  *)
(* and \o act on them as len(), slicing and + do in Python.                *)
(***************************************************************************)
EXTENDS Integers, Sequences, FiniteSets, TLC

(***************************************************************************)
(* Bounds of the model                                                     *)
(***************************************************************************)
\* Longest query list handed to search_all_queries.
MaxQueries == 2

(***************************************************************************)
(* Program constants                                                       *)
(***************************************************************************)
\* search_agent.py:34  _MIN_JOBS_PER_PROVIDER = 30
MIN_JOBS_PER_PROVIDER == 30
\* search_agent.py:349  ThreadPoolExecutor(max_workers=min(5, ...))
MAX_WORKERS == 5
\* search_provider.py:19-20
PROVIDER_QUERY_PREFIX == "provider="
PROVIDER_QUERY_SEPARATOR == "::"
\* Python's None
None == "<None>"

(***************************************************************************)
(* str helpers                                                             *)
(***************************************************************************)
SetMin(S) == CHOOSE x \in S : \A y \in S : x <= y
SetMax(S) == CHOOSE x \in S : \A y \in S : x >= y

\* s.startswith(p)
StartsWith(s, p) == Len(s) >= Len(p) /\ SubSeq(s, 1, Len(p)) = p

\* the positions at which sep occurs in s
Occurrences(s, sep) ==
    {i \in 1..(Len(s) - Len(sep) + 1) : SubSeq(s, i, i + Len(sep) - 1) = sep}

\* sep in s
Contains(s, sep) == Occurrences(s, sep) # {}

\* s.strip(), for the blank character
Strip(s) ==
    LET solid == {i \in 1..Len(s) : SubSeq(s, i, i) # " "}
    IN  IF solid = {} THEN "" ELSE SubSeq(s, SetMin(solid), SetMax(solid))

\* s.removeprefix(p)
RemovePrefix(s, p) == IF StartsWith(s, p) THEN SubSeq(s, Len(p) + 1, Len(s)) ELSE s

UPPER == "ABCDEFGHIJKLMNOPQRSTUVWXYZ"
LOWER == "abcdefghijklmnopqrstuvwxyz"

\* the lower-case letter of every upper-case letter
LowerOfUpper ==
    [c \in {SubSeq(UPPER, i, i) : i \in 1..Len(UPPER)} |->
        LET at == CHOOSE i \in 1..Len(UPPER) : SubSeq(UPPER, i, i) = c
        IN  SubSeq(LOWER, at, at)] @@ <<>>

LowerChar(c) == IF c \in DOMAIN LowerOfUpper THEN LowerOfUpper[c] ELSE c

RECURSIVE Lower(_)
\* s.lower()
Lower(s) ==
    IF Len(s) = 0 THEN ""
    ELSE LowerChar(SubSeq(s, 1, 1)) \o Lower(SubSeq(s, 2, Len(s)))

\* A Python list given by its elements: the tuple of the values of f.
List(f) == f \o <<>>

(***************************************************************************)
(* search_provider.py: the routing prefix                                  *)
(***************************************************************************)
\* format_provider_query(provider_name, query)
format_provider_query(provider_name, query) ==
    PROVIDER_QUERY_PREFIX \o provider_name \o PROVIDER_QUERY_SEPARATOR \o query

\* a parse that splits at the last separator
parse_provider_query_rsplit(query) ==
    IF StartsWith(query, PROVIDER_QUERY_PREFIX) /\ Contains(query, PROVIDER_QUERY_SEPARATOR)
    THEN LET at == SetMax(Occurrences(query, PROVIDER_QUERY_SEPARATOR))
             meta == SubSeq(query, 1, at - 1)
             clean_query == SubSeq(query, at + Len(PROVIDER_QUERY_SEPARATOR), Len(query))
             target_provider == Strip(RemovePrefix(meta, PROVIDER_QUERY_PREFIX))
         IN  IF target_provider # "" /\ Strip(clean_query) # ""
             THEN <<target_provider, Strip(clean_query)>>
             ELSE <<None, query>>
    ELSE <<None, query>>

\* parse_provider_query(query) -> (target_provider | None, clean_query)
parse_provider_query(query) ==
    IF StartsWith(query, PROVIDER_QUERY_PREFIX) /\ Contains(query, PROVIDER_QUERY_SEPARATOR)
    THEN LET at == SetMin(Occurrences(query, PROVIDER_QUERY_SEPARATOR))
             meta == SubSeq(query, 1, at - 1)
             clean_query == SubSeq(query, at + Len(PROVIDER_QUERY_SEPARATOR), Len(query))
             target_provider == Strip(RemovePrefix(meta, PROVIDER_QUERY_PREFIX))
         IN  IF target_provider # "" /\ Strip(clean_query) # ""
             THEN <<target_provider, Strip(clean_query)>>
             ELSE <<None, query>>
    ELSE <<None, query>>

(***************************************************************************)
(* models.py: JobListing, and the identity of a listing                    *)
(***************************************************************************)
\* JobListing(title, company_name, location, source)
JobListing(title, company_name, location, source) ==
    [title |-> title, company_name |-> company_name, location |-> location,
     source |-> source]

\* a key that also tells the sources apart
DedupKeyWithSource(job) ==
    job.title \o "|" \o job.company_name \o "|" \o job.location \o "|" \o job.source

\* key = f"{job.title}|{job.company_name}|{job.location}"
DedupKey(job) == job.title \o "|" \o job.company_name \o "|" \o job.location

\* the (title, company_name, location) triple of a listing
Triple(job) == <<job.title, job.company_name, job.location>>

(***************************************************************************)
(* The providers: each child has a name, an optional source_id attribute,  *)
(* a class name, the source tag it stamps on its listings, and whether the *)
(* environment holds the configuration its search reads (configured).      *)
(***************************************************************************)
\* bundesagentur.py: class BundesagenturProvider (name written in ASCII)
BA_NAME == "Bundesagentur fuer Arbeit"
BundesagenturProvider ==
    [name |-> BA_NAME, source_id |-> None,
     type_name |-> "BundesagenturProvider", tag |-> "bundesagentur",
     configured |-> TRUE]

\* serpapi_provider.py: class SerpApiProvider
SERP_NAME == "SerpApi (Google Jobs)"
SerpApiProvider ==
    [name |-> SERP_NAME, source_id |-> None,
     type_name |-> "SerpApiProvider", tag |-> "serpapi", configured |-> TRUE]

\* SerpApiProvider in an environment without SERPAPI_KEY
SerpApiNoKey == [SerpApiProvider EXCEPT !.configured = FALSE]

\* the providers of the test suite, which carry a source_id attribute
BaWithSourceId == [BundesagenturProvider EXCEPT !.source_id = "bundesagentur"]
SerpWithSourceId == [SerpApiProvider EXCEPT !.source_id = " SerpApi "]

\* get_provider's two results, and the combined provider of the tests
SingleProvider(p) == [combined |-> FALSE, providers |-> <<p>>]
CombinedSearchProvider(ps) == [combined |-> TRUE, providers |-> ps]

\* get_provider() with SERPAPI_KEY set
get_provider == CombinedSearchProvider(<<BundesagenturProvider, SerpApiProvider>>)

ProviderChoices ==
    { SingleProvider(BundesagenturProvider),
      CombinedSearchProvider(<<BaWithSourceId, SerpWithSourceId>>),
      CombinedSearchProvider(<<BundesagenturProvider, SerpApiProvider>>),
      CombinedSearchProvider(<<BundesagenturProvider, SerpApiNoKey>>) }

\* _provider_quota_source_key(provider)
provider_quota_source_key(p) ==
    IF p.source_id # None /\ Strip(p.source_id) # ""
    THEN Lower(Strip(p.source_id))
    ELSE IF p.name = BA_NAME THEN "bundesagentur"
    ELSE Lower(p.type_name)

(***************************************************************************)
(* The back ends, as far as a search observes them: what a child's search  *)
(* answers for a query.  Listing n of a back end is the same posting       *)
(* whatever query finds it; a query finds the postings that follow its     *)
(* offset.  Postings 1 and 2 are carried by every back end under the same  *)
(* title, company and location.  Postings 61 and 62 of every back end      *)
(* have a '|' inside a field.                                              *)
(***************************************************************************)
QueryOffset(clean_query) ==
    CASE clean_query = "Python Developer"   -> 0
      [] clean_query = "Backend Engineer"   -> 20
      [] clean_query = "Softwareentwickler" -> 40
      [] OTHER                              -> 0

Posting(child, n) ==
    IF n <= 2
    THEN JobListing("Dev " \o ToString(n), "Shared Co", "Berlin", child.tag)
    ELSE IF n = 61
    THEN JobListing("Dev|Ops", "Acme", "Berlin", child.tag)
    ELSE IF n = 62
    THEN JobListing("Dev", "Ops|Acme", "Berlin", child.tag)
    ELSE JobListing(child.tag \o " " \o ToString(n), child.tag \o " Co", "Berlin", child.tag)

\* What one provider.search(query, location, max_results) call does.
ChildOutcomes == {"raise", "empty", "full"}

\* Children whose search returns the same list at every call, whatever the
\* query and the budget: child A with 2 listings, child B with 3, one of them
\* equal to A's first in title, company and location (B's first, or B's last).
ScenarioA ==
    [name |-> "A", source_id |-> None, type_name |-> "FixedList", tag |-> "a",
     configured |-> TRUE]
ScenarioB == [ScenarioA EXCEPT !.name = "B", !.tag = "b"]
ScenarioBDupLast == [ScenarioB EXCEPT !.tag = "b, duplicate last"]

FixedList(child) ==
    LET own(n) == JobListing(child.name \o " " \o ToString(n), child.name \o " Co",
                             "Berlin", child.tag)
        shared == JobListing("A 1", "A Co", "Berlin", child.tag)
    IN  CASE child.tag = "a" -> <<own(1), own(2)>>
          [] child.tag = "b" -> <<shared, own(2), own(3)>>
          [] OTHER           -> <<own(1), own(2), shared>>

\* What the search of this child may do: SerpApiProvider's raises ValueError
\* at every call when SERPAPI_KEY is not set; a fixed-list child always
\* returns its list.
Outcomes(child) ==
    CASE ~child.configured             -> {"unconfigured"}
      [] child.type_name = "FixedList" -> {"full"}
      [] OTHER                         -> ChildOutcomes

\* the outcomes of the children of a provider list, one per child
OutcomeChoices(children) ==
    {o \in [1..Len(children) -> ChildOutcomes \cup {"unconfigured"}] :
        \A i \in 1..Len(children) : o[i] \in Outcomes(children[i])}

\* the search raised
Raises(outcome) == outcome \in {"raise", "unconfigured"}

ChildSearch(child, clean_query, max_results, outcome) ==
    IF outcome = "full"
    THEN IF child.type_name = "FixedList" THEN FixedList(child)
         ELSE List([i \in 1..max_results |-> Posting(child, QueryOffset(clean_query) + i)])
    ELSE <<>>

(***************************************************************************)
(* search_provider.py: CombinedSearchProvider.search                       *)
(***************************************************************************)
\* math.ceil(a / b) for b > 0
CeilDiv(a, b) == (a + b - 1) \div b

Max2(a, b) == IF a >= b THEN a ELSE b
Min2(a, b) == IF a <= b THEN a ELSE b

\* a split that hands every child the whole budget
PerProviderWhole(max_results, k) == Max2(1, max_results)

\* per_provider = max(1, math.ceil(max_results / len(providers)))
PerProvider(max_results, k) == Max2(1, CeilDiv(max_results, k))

\* a selection that ignores the routing prefix
SelectEveryProvider(children, query) == 1..Len(children)

\* the indices (in self.providers) of the children a query selects
SelectProviders(children, query) ==
    LET target_provider == parse_provider_query(query)[1]
        named == {i \in 1..Len(children) : children[i].name = target_provider}
    IN  IF target_provider # None /\ named # {} THEN named ELSE 1..Len(children)

Keys(merged) == {merged[i].key : i \in 1..Len(merged)}
Values(merged) == [i \in 1..Len(merged) |-> merged[i].job]

RECURSIVE FreshFrom(_, _, _)
\* The entries a "for job in jobs: if key not in d: d[key] = job" loop adds,
\* from jobs[i] on, to a dict whose keys are `keys`.
FreshFrom(keys, jobs, i) ==
    IF i > Len(jobs) THEN <<>>
    ELSE LET key == DedupKey(jobs[i])
         IN  IF key \in keys THEN FreshFrom(keys, jobs, i + 1)
             ELSE <<[key |-> key, job |-> jobs[i]]>>
                  \o FreshFrom(keys \cup {key}, jobs, i + 1)

\* the entries of a loop that walks the list from its end
FreshEntriesFromEnd(keys, jobs) ==
    FreshFrom(keys, [k \in 1..Len(jobs) |-> jobs[Len(jobs) + 1 - k]], 1)

FreshEntries(keys, jobs) == FreshFrom(keys, jobs, 1)

\* for job in jobs: if key not in merged: merged[key] = job
MergeByKey(merged, jobs) == merged \o FreshEntries(Keys(merged), jobs)

\* list[:n]
Truncate(list, n) == SubSeq(list, 1, Min2(Len(list), n))

RECURSIVE CombinedLoop(_, _, _, _, _, _, _)
\* the for-loop over the selected children, from child index i on; acc holds
\* the merged dict and the provider.search calls made so far
CombinedLoop(children, selected, clean_query, per_provider, outcomes, i, acc) ==
    IF i > Len(children) THEN acc
    ELSE IF i \notin selected
    THEN CombinedLoop(children, selected, clean_query, per_provider, outcomes, i + 1, acc)
    ELSE LET jobs == ChildSearch(children[i], clean_query, per_provider, outcomes[i])
             call == [provider |-> children[i].name, query |-> clean_query,
                      max_results |-> per_provider, raised |-> Raises(outcomes[i]),
                      outcome |-> outcomes[i]]
         IN  CombinedLoop(children, selected, clean_query, per_provider, outcomes, i + 1,
                          [merged |-> MergeByKey(acc.merged, jobs),
                           calls  |-> Append(acc.calls, call)])

\* CombinedSearchProvider.search(query, location, max_results)
CombinedSearch(children, query, max_results, outcomes) ==
    IF children = <<>> \/ max_results <= 0
    THEN [jobs |-> <<>>, calls |-> <<>>]
    ELSE LET selected == SelectProviders(children, query)
             clean_query == parse_provider_query(query)[2]
             per_provider == PerProvider(max_results, Cardinality(selected))
             loop == CombinedLoop(children, selected, clean_query, per_provider, outcomes, 1,
                                  [merged |-> <<>>, calls |-> <<>>])
         IN  [jobs |-> Truncate(Values(loop.merged), max_results), calls |-> loop.calls]

(***************************************************************************)
(* search_agent.py: search_all_queries                                     *)
(***************************************************************************)
VARIABLES
    provider,          \* the active provider
    queries,           \* the query list
    jobs_per_query,    \* jobs_per_query
    min_unique_arg,    \* min_unique_jobs as passed by the caller
    min_unique_jobs,   \* min_unique_jobs after line 333 (the effective minimum)
    quota_sources,     \* quota_sources
    all_jobs,          \* all_jobs: the dict, in insertion order, as <<[key, job]>>
    source_counts,     \* source_counts: the dict, as a function on its keys
    completed,         \* completed
    early_stop,        \* early_stop.is_set()
    futures,           \* futures: per query the task's state and outcome
    yielded,           \* the futures as_completed has handed to the loop
    pc,                \* where the collecting thread is
    progress_args,     \* progress_args of the current iteration
    batch_new,         \* batch_new of the current iteration
    progress_calls,    \* the on_progress calls made, in order
    found_batches,     \* the on_jobs_found calls made, in order
    returned           \* the returned list

orch_vars == <<provider, queries, jobs_per_query, min_unique_arg, min_unique_jobs,
               quota_sources, all_jobs, source_counts, completed, early_stop, futures,
               yielded, pc, progress_args, batch_new, progress_calls, found_batches,
               returned>>

\* CombinedSearchProvider.search, one call
VARIABLES
    cs_providers,      \* self.providers
    cs_query,          \* query
    cs_max_results,    \* max_results
    cs_pc,             \* where the call is
    cs_selected,       \* providers: the selected children, as indices of self.providers
    cs_clean_query,    \* clean_query
    cs_per_provider,   \* per_provider
    cs_next,           \* the position in cs_selected of the for-loop
    cs_merged,         \* merged: the dict, in insertion order, as <<[key, job]>>
    cs_calls,          \* the provider.search calls made, in order
    cs_result          \* the returned list

cs_vars == <<cs_providers, cs_query, cs_max_results, cs_pc, cs_selected, cs_clean_query,
             cs_per_provider, cs_next, cs_merged, cs_calls, cs_result>>

\* bundesagentur.py: one call of _get_with_retry, _fetch_detail_api or _fetch_detail
VARIABLES
    ba_path,           \* which of the three functions runs
    ba_attempt,        \* attempt: the loop variable of the next iteration
    ba_pc,             \* where the call is
    ba_last_exc,       \* last_exc is not None
    ba_responses,      \* what client.get answered, in order
    ba_sleeps,         \* the time.sleep delays, in order, in tenths of a second
    ba_result,         \* the returned value
    ba_raised          \* the exception that left the function

ba_vars == <<ba_path, ba_attempt, ba_pc, ba_last_exc, ba_responses, ba_sleeps, ba_result,
             ba_raised>>

\* bundesagentur.py: one BundesagenturProvider.search call
VARIABLES
    bs_query,          \* query
    bs_max_results,    \* max_results
    bs_pc,             \* where the call is
    bs_page_size,      \* page_size
    bs_page,           \* page
    bs_items,          \* len(items)
    bs_requests,       \* the page requests made, in order, as [page, size]
    bs_answer,         \* what the latest page request was answered with
    bs_result          \* the number of listings returned

bs_vars == <<bs_query, bs_max_results, bs_pc, bs_page_size, bs_page, bs_items,
             bs_requests, bs_answer, bs_result>>

\* no page was requested yet
NO_ANSWER == [none |-> FALSE, records |-> -1, total |-> 0]

\* search_provider.py: one parse_provider_query call
VARIABLES
    pq_input,          \* query
    pq_pc,             \* where the call is
    pq_result          \* the returned pair

pq_vars == <<pq_input, pq_pc, pq_result>>

\* one record turned into a listing by parse_job_results or _parse_listing
VARIABLES
    lo_provider,       \* which of the two functions runs
    lo_input,          \* the record's apply options, or the detail's external URL
    lo_pc,             \* where the call is
    lo_options         \* the apply options of the listing emitted

lo_vars == <<lo_provider, lo_input, lo_pc, lo_options>>

\* serpapi_provider.py: one search_jobs call
VARIABLES
    sj_num_results,    \* num_results
    sj_pc,             \* where the call is
    sj_all_jobs,       \* len(all_jobs)
    sj_token,          \* next_page_token
    sj_requests,       \* the next_page_token parameter of every request, in order
    sj_answers,        \* what every request was answered with, in order
    sj_result          \* the number of listings returned

sj_vars == <<sj_num_results, sj_pc, sj_all_jobs, sj_token, sj_requests, sj_answers,
             sj_result>>

\* bundesagentur.py: one BundesagenturProvider._enrich call
VARIABLES
    en_strategy,       \* self._detail_strategy
    en_items,          \* items, as the list of their refnr
    en_futures,        \* the _get_detail task of every item
    en_collected,      \* the tasks as_completed has yielded
    en_details,        \* details: refnr -> detail
    en_pc,             \* where the call is
    en_result          \* the listings returned, as [refnr, detail]

en_vars == <<en_strategy, en_items, en_futures, en_collected, en_details, en_pc, en_result>>

\* search_agent.py: the body of the as_completed loop, statement by statement
VARIABLES
    lk_tasks,          \* the state of every task's future
    lk_pc,             \* the statement the collecting thread is at
    lk_lock,           \* the lock is held
    lk_future,         \* the future the loop body is working on
    lk_seen,           \* the futures as_completed has yielded
    lk_stop,           \* early_stop is set
    lk_events,         \* what was done so far, each with the lock's state
    lk_all_jobs,       \* the keys of all_jobs
    lk_batch_new,      \* the keys of batch_new
    lk_args            \* min_unique_jobs and which callbacks were passed

lk_vars == <<lk_tasks, lk_pc, lk_lock, lk_future, lk_seen, lk_stop, lk_events,
             lk_all_jobs, lk_batch_new, lk_args>>

new_vars == <<sj_vars, en_vars, lk_vars>>

more_vars == <<bs_vars, pq_vars, lo_vars, new_vars>>

vars == <<orch_vars, cs_vars, ba_vars, more_vars>>

\* The queries the phrase generator may hand over.
QueryPool ==
    << format_provider_query(BA_NAME, "Softwareentwickler"),
       "Python Developer",
       format_provider_query(SERP_NAME, "Backend Engineer"),
       "Backend Engineer" >>

QueryLists ==
    {SubSeq(QueryPool, i, j) : i \in 1..Len(QueryPool), j \in 1..Len(QueryPool)}
    \ {<<>>}

JobsPerQueryChoices == {10, 60}
MinUniqueChoices == {0, 1, 70}

\* quota_sources = {_provider_quota_source_key(p) for p in provider.providers}
QuotaSources(prov) ==
    IF prov.combined
    THEN {provider_quota_source_key(prov.providers[i]) : i \in 1..Len(prov.providers)}
    ELSE {}

\* a floor that is applied whatever min_unique_jobs is
EffectiveMinUniqueAlways(prov, min_unique) ==
    IF prov.combined
    THEN Max2(min_unique, MIN_JOBS_PER_PROVIDER * Cardinality(QuotaSources(prov)))
    ELSE min_unique

\* min_unique_jobs = max(min_unique_jobs, _MIN_JOBS_PER_PROVIDER * len(quota_sources))
EffectiveMinUnique(prov, min_unique) ==
    IF prov.combined /\ QuotaSources(prov) # {} /\ min_unique > 0
    THEN Max2(min_unique, MIN_JOBS_PER_PROVIDER * Cardinality(QuotaSources(prov)))
    ELSE min_unique

\* source_counts.get(source, 0)
CountOf(counts, source) == IF source \in DOMAIN counts THEN counts[source] ELSE 0

\* source = (job.source or "unknown").lower(), for job.source = tag
SourceKey(tag) == Lower(IF tag = "" THEN "unknown" ELSE tag)

\* a merge that keeps only the latest task's listings
MergeLockedReplacing(jobs) ==
    [all_jobs |-> FreshEntries({}, jobs),
     batch_new |-> List(Values(FreshEntries({}, jobs))),
     source_counts |-> source_counts]

\* the for-loop under the lock: every job with a new key is stored in
\* all_jobs, appended to batch_new and counted for its source
MergeLocked(jobs) ==
    LET fresh == FreshEntries(Keys(all_jobs), jobs)
        new_jobs == List(Values(fresh))
        tags == {new_jobs[i].source : i \in 1..Len(new_jobs)}
        key_of == [t \in tags |-> SourceKey(t)] @@ <<>>
        added(source) ==
            LET its_tags == {t \in tags : key_of[t] = source}
            IN  Cardinality({i \in 1..Len(new_jobs) : new_jobs[i].source \in its_tags})
        sources == {key_of[t] : t \in tags}
    IN  [all_jobs |-> all_jobs \o fresh,
         batch_new |-> new_jobs,
         source_counts |->
             [source \in DOMAIN source_counts \cup sources |->
                 CountOf(source_counts, source) + added(source)]]

\* a quota that one source alone can meet
QuotaMetBySome(sources, counts) ==
    sources = {} \/ \E source \in sources : CountOf(counts, source) >= MIN_JOBS_PER_PROVIDER

\* quota_met
QuotaMet(sources, counts) ==
    \A source \in sources : CountOf(counts, source) >= MIN_JOBS_PER_PROVIDER

\* a stop condition that only fires above the minimum
StopNowStrict(min_unique, jobs, sources, counts) ==
    min_unique # 0 /\ Len(jobs) > min_unique + MIN_JOBS_PER_PROVIDER
                   /\ QuotaMet(sources, counts)

\* if min_unique_jobs and len(all_jobs) >= min_unique_jobs and quota_met
StopNow(min_unique, jobs, sources, counts) ==
    min_unique # 0 /\ Len(jobs) >= min_unique /\ QuotaMet(sources, counts)

\* max_workers=min(5, max(1, len(queries)))
MaxWorkers(qs) == Min2(MAX_WORKERS, Max2(1, Len(qs)))

Running == {i \in DOMAIN futures : futures[i].state = "running"}

PendingFuture ==
    [state |-> "pending", jobs |-> <<>>, raised |-> FALSE, called |-> FALSE,
     config_error |-> FALSE]

\* a loop that lets the task's exception through
FutureResultUncaught(f) ==
    [jobs |-> IF f.raised THEN <<>> ELSE f.jobs, propagates |-> f.raised]

\* jobs = []; try: jobs = future.result(); except Exception: (logged)
FutureResult(f) ==
    [jobs |-> IF f.raised THEN <<>> ELSE f.jobs, propagates |-> FALSE]

\* the scenario of two queries, the second routed to child B
ScenarioQueries == <<"Python Developer", format_provider_query("B", "Backend Engineer")>>
ScenarioJobsPerQuery == {5, 10}
ScenarioMinUnique == {0, 4, 50}
ScenarioProviders ==
    { CombinedSearchProvider(<<ScenarioA, ScenarioB>>),
      CombinedSearchProvider(<<ScenarioA, ScenarioBDupLast>>),
      CombinedSearchProvider(<<ScenarioB, ScenarioA>>) }

\* The locals of search_all_queries before the first task is submitted.
OrchStart ==
    /\ min_unique_jobs = EffectiveMinUnique(provider, min_unique_arg)
    /\ quota_sources = QuotaSources(provider)
    /\ all_jobs = <<>>
    /\ source_counts = <<>>
    /\ completed = 0
    /\ early_stop = FALSE
    /\ futures = [i \in 1..Len(queries) |-> PendingFuture]
    /\ yielded = {}
    /\ pc = "wait"
    /\ progress_args = <<>>
    /\ batch_new = <<>>
    /\ progress_calls = <<>>
    /\ found_batches = <<>>
    /\ returned = None

InitOrch ==
    /\ provider \in ProviderChoices
    /\ queries \in {q \in QueryLists : Len(q) <= MaxQueries}
    /\ jobs_per_query \in JobsPerQueryChoices
    /\ min_unique_arg \in MinUniqueChoices
    /\ OrchStart

\* The call of search_all_queries with two queries, the second routed to
\* child B, on a combined provider of the children A and B.
InitOrchScenario ==
    /\ provider \in ScenarioProviders
    /\ queries = ScenarioQueries
    /\ jobs_per_query \in ScenarioJobsPerQuery
    /\ min_unique_arg \in ScenarioMinUnique
    /\ OrchStart

\* A worker takes task i off the queue and enters _search_one: with early_stop
\* set it returns [] at once, without calling the provider.
SearchOneBegin(i) ==
    /\ futures[i].state = "pending"
    /\ Cardinality(Running) < MaxWorkers(queries)
    /\ futures' = [futures EXCEPT ![i] =
                      IF early_stop THEN [@ EXCEPT !.state = "done"]
                      ELSE [@ EXCEPT !.state = "running"]]
    /\ UNCHANGED <<cs_vars, ba_vars, more_vars>>
    /\ UNCHANGED <<provider, queries, jobs_per_query, min_unique_arg, min_unique_jobs,
                   quota_sources, all_jobs, source_counts, completed, early_stop,
                   yielded, pc, progress_args, batch_new, progress_calls,
                   found_batches, returned>>

\* _search_one(query) once early_stop was found clear: the routing prefix is
\* resolved here for a single provider and inside the combined provider
\* otherwise; an exception of a single provider leaves _search_one.
search_one(prov, query, max_results, outcomes) ==
    IF prov.combined
    THEN LET found == CombinedSearch(prov.providers, query, max_results, outcomes)
         IN  [raised |-> FALSE,
              jobs |-> found.jobs,
              config_error |-> \E c \in 1..Len(found.calls) :
                                  found.calls[c].outcome = "unconfigured"]
    ELSE [raised |-> Raises(outcomes[1]),
          jobs |-> ChildSearch(prov.providers[1], parse_provider_query(query)[2],
                               max_results, outcomes[1]),
          config_error |-> outcomes[1] = "unconfigured"]

\* The answers the back ends can give to the searches of a run: search_one,
\* tabulated over the run's possible inputs.
SearchAnswers ==
    LET inputs == UNION {
            {<<prov, QueryPool[q], m, o>> :
                q \in 1..Len(QueryPool), m \in JobsPerQueryChoices,
                o \in OutcomeChoices(prov.providers)} :
            prov \in ProviderChoices}
    IN  [a \in inputs |-> search_one(a[1], a[2], a[3], a[4])] @@ <<>>

\* the same for the scenario's providers and queries
ScenarioAnswers ==
    LET inputs == UNION {
            {<<prov, ScenarioQueries[q], m, o>> :
                q \in 1..Len(ScenarioQueries), m \in ScenarioJobsPerQuery,
                o \in OutcomeChoices(prov.providers)} :
            prov \in ScenarioProviders}
    IN  [a \in inputs |-> search_one(a[1], a[2], a[3], a[4])] @@ <<>>

\* provider.search(clean_query, location, max_results=jobs_per_query)
AnswerOf(prov, query, max_results, outcomes) ==
    IF prov \in ScenarioProviders
    THEN ScenarioAnswers[<<prov, query, max_results, outcomes>>]
    ELSE SearchAnswers[<<prov, query, max_results, outcomes>>]

\* _search_one's provider.search call of task i returns or raises.
SearchOneFinish(i) ==
    /\ futures[i].state = "running"
    /\ \E outcomes \in OutcomeChoices(provider.providers) :
          LET answer == AnswerOf(provider, queries[i], jobs_per_query, outcomes)
          IN  futures' = [futures EXCEPT ![i] =
                  [state |-> "done", called |-> TRUE,
                   raised |-> answer.raised, jobs |-> answer.jobs,
                   config_error |-> answer.config_error]]
    /\ UNCHANGED <<cs_vars, ba_vars, more_vars>>
    /\ UNCHANGED <<provider, queries, jobs_per_query, min_unique_arg, min_unique_jobs,
                   quota_sources, all_jobs, source_counts, completed, early_stop,
                   yielded, pc, progress_args, batch_new, progress_calls,
                   found_batches, returned>>

\* as_completed yields the finished future i; the loop body up to the end of
\* the "with lock" block.
CollectMerge(i) ==
    /\ pc = "wait"
    /\ futures[i].state = "done"
    /\ i \notin yielded
    /\ LET result == FutureResult(futures[i])
           acc == MergeLocked(result.jobs)
       IN  IF result.propagates
           THEN /\ pc' = "raised"
                /\ UNCHANGED <<all_jobs, batch_new, source_counts, completed,
                               progress_args, early_stop>>
           ELSE /\ all_jobs' = acc.all_jobs
                /\ batch_new' = acc.batch_new
                /\ source_counts' = acc.source_counts
                /\ completed' = completed + 1
                /\ progress_args' = <<completed + 1, Len(queries), Len(acc.all_jobs)>>
                /\ early_stop' = (early_stop \/
                       StopNow(min_unique_jobs, acc.all_jobs, quota_sources,
                               acc.source_counts))
                /\ pc' = "callbacks"
    /\ yielded' = yielded \cup {i}
    /\ UNCHANGED <<cs_vars, ba_vars, more_vars>>
    /\ UNCHANGED <<provider, queries, jobs_per_query, min_unique_arg, min_unique_jobs,
                   quota_sources, futures, progress_calls, found_batches, returned>>

\* f.cancel() for every future that is not done: a pending one is cancelled,
\* a running one is not.
CancelPending(fs) ==
    [i \in DOMAIN fs |-> IF fs[i].state = "pending"
                         THEN [fs[i] EXCEPT !.state = "cancelled"] ELSE fs[i]]

\* callbacks that hand out batch_new even when it is empty
CollectCallbacksEveryBatch ==
    /\ pc = "callbacks"
    /\ progress_calls' = Append(progress_calls, progress_args)
    /\ found_batches' = Append(found_batches, batch_new)
    /\ IF early_stop
       THEN /\ futures' = CancelPending(futures)
            /\ pc' = "shutdown"
       ELSE /\ futures' = futures
            /\ pc' = IF yielded = DOMAIN futures THEN "shutdown" ELSE "wait"
    /\ UNCHANGED <<cs_vars, ba_vars, more_vars>>
    /\ UNCHANGED <<provider, queries, jobs_per_query, min_unique_arg, min_unique_jobs,
                   quota_sources, all_jobs, source_counts, completed, early_stop,
                   yielded, progress_args, batch_new, returned>>

\* The rest of the loop body, outside the lock: the callbacks, then on early
\* stop the cancellation of the pending futures and the break.
CollectCallbacks ==
    /\ pc = "callbacks"
    /\ progress_calls' = Append(progress_calls, progress_args)
    /\ found_batches' = IF batch_new # <<>> THEN Append(found_batches, batch_new)
                        ELSE found_batches
    /\ IF early_stop
       THEN /\ futures' = CancelPending(futures)
            /\ pc' = "shutdown"
       ELSE /\ futures' = futures
            /\ pc' = IF yielded = DOMAIN futures THEN "shutdown" ELSE "wait"
    /\ UNCHANGED <<cs_vars, ba_vars, more_vars>>
    /\ UNCHANGED <<provider, queries, jobs_per_query, min_unique_arg, min_unique_jobs,
                   quota_sources, all_jobs, source_counts, completed, early_stop,
                   yielded, progress_args, batch_new, returned>>

\* a return that does not wait for the tasks still running
ReturnWithoutWaiting ==
    /\ pc = "shutdown"
    /\ returned' = Values(all_jobs)
    /\ pc' = "returned"
    /\ UNCHANGED <<cs_vars, ba_vars, more_vars>>
    /\ UNCHANGED <<provider, queries, jobs_per_query, min_unique_arg, min_unique_jobs,
                   quota_sources, all_jobs, source_counts, completed, early_stop,
                   futures, yielded, progress_args, batch_new, progress_calls,
                   found_batches>>

\* The executor's __exit__ waits for every task that was not cancelled; then
\* return list(all_jobs.values()).
Return ==
    /\ pc = "shutdown"
    /\ \A i \in DOMAIN futures : futures[i].state \in {"done", "cancelled"}
    /\ returned' = Values(all_jobs)
    /\ pc' = "returned"
    /\ UNCHANGED <<cs_vars, ba_vars, more_vars>>
    /\ UNCHANGED <<provider, queries, jobs_per_query, min_unique_arg, min_unique_jobs,
                   quota_sources, all_jobs, source_counts, completed, early_stop,
                   futures, yielded, progress_args, batch_new, progress_calls,
                   found_batches>>

NextOrch ==
    \/ \E i \in DOMAIN futures : SearchOneBegin(i)
    \/ \E i \in DOMAIN futures : SearchOneFinish(i)
    \/ \E i \in DOMAIN futures : CollectMerge(i)
    \/ CollectCallbacks
    \/ Return

\* no search_all_queries run
OrchIdle ==
    /\ provider = SingleProvider(BundesagenturProvider)
    /\ queries = <<>>
    /\ jobs_per_query = 0
    /\ min_unique_arg = 0
    /\ min_unique_jobs = 0
    /\ quota_sources = {}
    /\ all_jobs = <<>>
    /\ source_counts = <<>>
    /\ completed = 0
    /\ early_stop = FALSE
    /\ futures = <<>>
    /\ yielded = {}
    /\ pc = "idle"
    /\ progress_args = <<>>
    /\ batch_new = <<>>
    /\ progress_calls = <<>>
    /\ found_batches = <<>>
    /\ returned = None

\* no CombinedSearchProvider.search call of its own
CsIdle ==
    /\ cs_providers = <<>>
    /\ cs_query = ""
    /\ cs_max_results = 0
    /\ cs_pc = "idle"
    /\ cs_selected = <<>>
    /\ cs_clean_query = ""
    /\ cs_per_provider = 0
    /\ cs_next = 0
    /\ cs_merged = <<>>
    /\ cs_calls = <<>>
    /\ cs_result = None

\* no HTTP call of its own
BaIdle ==
    /\ ba_path = None
    /\ ba_attempt = 0
    /\ ba_pc = "idle"
    /\ ba_last_exc = FALSE
    /\ ba_responses = <<>>
    /\ ba_sleeps = <<>>
    /\ ba_result = None
    /\ ba_raised = None

\* no BundesagenturProvider.search call
BsIdle ==
    /\ bs_query = ""
    /\ bs_max_results = 0
    /\ bs_pc = "idle"
    /\ bs_page_size = 0
    /\ bs_page = 0
    /\ bs_items = 0
    /\ bs_requests = <<>>
    /\ bs_answer = NO_ANSWER
    /\ bs_result = 0

\* no parse_provider_query call of its own
PqIdle ==
    /\ pq_input = ""
    /\ pq_pc = "idle"
    /\ pq_result = <<>>

\* no record being turned into a listing
LoIdle ==
    /\ lo_provider = None
    /\ lo_input = <<>>
    /\ lo_pc = "idle"
    /\ lo_options = <<>>

\* no search_jobs call
SjIdle ==
    /\ sj_num_results = 0
    /\ sj_pc = "idle"
    /\ sj_all_jobs = 0
    /\ sj_token = None
    /\ sj_requests = <<>>
    /\ sj_answers = <<>>
    /\ sj_result = 0

\* no _enrich call
EnIdle ==
    /\ en_strategy = None
    /\ en_items = <<>>
    /\ en_futures = <<>>
    /\ en_collected = {}
    /\ en_details = <<>>
    /\ en_pc = "idle"
    /\ en_result = <<>>

\* no loop body being traced
LkIdle ==
    /\ lk_tasks = <<>>
    /\ lk_pc = "idle"
    /\ lk_lock = FALSE
    /\ lk_future = 0
    /\ lk_seen = {}
    /\ lk_stop = FALSE
    /\ lk_events = <<>>
    /\ lk_all_jobs = {}
    /\ lk_batch_new = {}
    /\ lk_args = <<>>

NewIdle == SjIdle /\ EnIdle /\ LkIdle

MoreIdle == BsIdle /\ PqIdle /\ LoIdle /\ NewIdle

\* One search_all_queries run.
Init == InitOrch /\ CsIdle /\ BaIdle /\ MoreIdle
Next == NextOrch
Spec == Init /\ [][Next]_vars

\* One search_all_queries run of the two-query scenario.
InitScenario == InitOrchScenario /\ CsIdle /\ BaIdle /\ MoreIdle
SpecScenario == InitScenario /\ [][NextOrch]_vars

(***************************************************************************)
(* search_provider.py: CombinedSearchProvider.search, step by step         *)
(***************************************************************************)
MaxBudget == 4

\* a third child, as the test suite's MagicMock providers
MockProvider ==
    [name |-> "Provider C", source_id |-> None, type_name |-> "MagicMock", tag |-> "mock",
     configured |-> TRUE]

ChildLists ==
    { <<>>,
      <<BundesagenturProvider>>,
      <<BundesagenturProvider, SerpApiProvider>>,
      <<SerpApiProvider, BundesagenturProvider>>,
      <<SerpApiNoKey, BundesagenturProvider>>,
      <<BundesagenturProvider, SerpApiProvider, MockProvider>> }

\* the query texts behind a routing prefix: plain, padded, blank
RoutedTexts == {"Softwareentwickler", " Backend Engineer ", " "}

\* the names a routing prefix may carry: the children's and one nobody has
RoutedNames == {BA_NAME, SERP_NAME, "Nobody"}

CsQueries ==
    {"Python Developer", "Backend Engineer", PROVIDER_QUERY_PREFIX \o BA_NAME}
    \cup {format_provider_query(n, t) : n \in RoutedNames, t \in RoutedTexts}

CsInit ==
    /\ cs_providers \in ChildLists
    /\ cs_query \in CsQueries
    /\ cs_max_results \in (-1)..MaxBudget
    /\ cs_pc = "start"
    /\ cs_selected = <<>>
    /\ cs_clean_query = ""
    /\ cs_per_provider = 0
    /\ cs_next = 0
    /\ cs_merged = <<>>
    /\ cs_calls = <<>>
    /\ cs_result = None

\* providers, as the list of the selected indices in self.providers' order
SelectedList(children, query) ==
    SelectSeq([i \in 1..Len(children) |-> i],
              LAMBDA i : i \in SelectProviders(children, query))

\* if not self.providers: return []
CsNoProviders ==
    /\ cs_pc = "start"
    /\ cs_providers = <<>>
    /\ cs_result' = <<>>
    /\ cs_pc' = "done"
    /\ UNCHANGED <<cs_providers, cs_query, cs_max_results, cs_selected, cs_clean_query,
                   cs_per_provider, cs_next, cs_merged, cs_calls>>
    /\ UNCHANGED <<orch_vars, ba_vars, more_vars>>

\* a search that goes on to its children with a budget of zero or less
CsNonPositiveBudgetIgnored ==
    /\ cs_pc = "start"
    /\ cs_providers # <<>>
    /\ cs_max_results <= 0
    /\ cs_selected' = SelectedList(cs_providers, cs_query)
    /\ cs_clean_query' = parse_provider_query(cs_query)[2]
    /\ cs_per_provider' = PerProvider(cs_max_results,
                                      Len(SelectedList(cs_providers, cs_query)))
    /\ cs_merged' = <<>>
    /\ cs_next' = 1
    /\ cs_pc' = "loop"
    /\ UNCHANGED <<cs_providers, cs_query, cs_max_results, cs_calls, cs_result>>
    /\ UNCHANGED <<orch_vars, ba_vars, more_vars>>

\* the query is parsed and the children selected; if max_results <= 0: return []
CsNonPositiveBudget ==
    /\ cs_pc = "start"
    /\ cs_providers # <<>>
    /\ cs_max_results <= 0
    /\ cs_selected' = SelectedList(cs_providers, cs_query)
    /\ cs_clean_query' = parse_provider_query(cs_query)[2]
    /\ cs_result' = <<>>
    /\ cs_pc' = "done"
    /\ UNCHANGED <<cs_providers, cs_query, cs_max_results, cs_per_provider, cs_next,
                   cs_merged, cs_calls>>
    /\ UNCHANGED <<orch_vars, ba_vars, more_vars>>

\* the query is parsed, the children selected and the budget split
CsSelect ==
    /\ cs_pc = "start"
    /\ cs_providers # <<>>
    /\ cs_max_results > 0
    /\ cs_selected' = SelectedList(cs_providers, cs_query)
    /\ cs_clean_query' = parse_provider_query(cs_query)[2]
    /\ cs_per_provider' = PerProvider(cs_max_results,
                                      Len(SelectedList(cs_providers, cs_query)))
    /\ cs_merged' = <<>>
    /\ cs_next' = 1
    /\ cs_pc' = "loop"
    /\ UNCHANGED <<cs_providers, cs_query, cs_max_results, cs_calls, cs_result>>
    /\ UNCHANGED <<orch_vars, ba_vars, more_vars>>

\* an except clause that lets ValueError through
CaughtInLoopButValueError(outcome) == outcome = "raise"

\* except Exception: whatever the child's search raised is caught
CaughtInLoop(outcome) == Raises(outcome)

\* one iteration of "for provider in providers": the child's search returns
\* or raises, and what it returned is merged
CsCallChild ==
    /\ cs_pc = "loop"
    /\ cs_next <= Len(cs_selected)
    /\ \E outcome \in Outcomes(cs_providers[cs_selected[cs_next]]) :
          LET child == cs_providers[cs_selected[cs_next]]
              jobs == ChildSearch(child, cs_clean_query, cs_per_provider, outcome)
          IN  /\ cs_calls' = Append(cs_calls,
                     [provider |-> child.name, query |-> cs_clean_query,
                      max_results |-> cs_per_provider, raised |-> Raises(outcome),
                      outcome |-> outcome, jobs |-> jobs])
              /\ cs_merged' = IF Raises(outcome) THEN cs_merged
                              ELSE MergeByKey(cs_merged, jobs)
              /\ cs_pc' = IF Raises(outcome) /\ ~CaughtInLoop(outcome)
                          THEN "raised" ELSE cs_pc
    /\ cs_next' = cs_next + 1
    /\ UNCHANGED <<cs_providers, cs_query, cs_max_results, cs_selected,
                   cs_clean_query, cs_per_provider, cs_result>>
    /\ UNCHANGED <<orch_vars, ba_vars, more_vars>>

\* return list(merged.values())[:max_results]
CsReturn ==
    /\ cs_pc = "loop"
    /\ cs_next > Len(cs_selected)
    /\ cs_result' = Truncate(Values(cs_merged), cs_max_results)
    /\ cs_pc' = "done"
    /\ UNCHANGED <<cs_providers, cs_query, cs_max_results, cs_selected, cs_clean_query,
                   cs_per_provider, cs_next, cs_merged, cs_calls>>
    /\ UNCHANGED <<orch_vars, ba_vars, more_vars>>

NextCombined ==
    \/ CsNoProviders
    \/ CsNonPositiveBudget
    \/ CsSelect
    \/ CsCallChild
    \/ CsReturn

\* One CombinedSearchProvider.search call.
InitCombined == OrchIdle /\ CsInit /\ BaIdle /\ MoreIdle
SpecCombined == InitCombined /\ [][NextCombined]_vars

(***************************************************************************)
(* bundesagentur.py: the retry loops of _get_with_retry, _fetch_detail_api *)
(* and _fetch_detail                                                       *)
(***************************************************************************)
MAX_RETRIES == 3
BASE_DELAY == 2
\* _BACKOFF_JITTER = 0.5, in tenths of a second
BACKOFF_JITTER == 5

\* the statuses after which the loops sleep and try again
RETRY_STATUSES == {403, 429, 500, 502, 503}

Paths == {"_get_with_retry", "_fetch_detail_api", "_fetch_detail"}

\* the return values: None, {} and the payloads named by where they came from
EMPTY_DICT == "{}"
RESPONSE == "<Response [200]>"
DATA == "data"
JOBDETAIL == "state['jobdetail']"
OTHER_JOBDETAIL == "the second tag's state['jobdetail']"

\* what the server may answer with
Statuses == {200, 400, 403, 404, 429, 500, 501, 502, 503, 504}

\* the 200 bodies that matter to a path: for the structured detail the JSON
\* text, for the detail page the ng-state script tag and its JSON text
Bodies(path) ==
    CASE path = "_get_with_retry" -> {"page"}
      [] path = "_fetch_detail_api" -> {"object", "array", "invalid"}
      [] path = "_fetch_detail" ->
            {"no tag", "object with jobdetail", "object without jobdetail",
             "array", "invalid",
             "object with jobdetail; object with other jobdetail",
             "object without jobdetail; object with jobdetail",
             "invalid; object with jobdetail"}

\* The JSON texts of the page's ng-state script tags, in page order: what
\* _NG_STATE_RE can match in resp.text.
NgStateTags(body) ==
    CASE body = "no tag" -> <<>>
      [] body = "object with jobdetail; object with other jobdetail" ->
            <<"object with jobdetail", "object with other jobdetail">>
      [] body = "object without jobdetail; object with jobdetail" ->
            <<"object without jobdetail", "object with jobdetail">>
      [] body = "invalid; object with jobdetail" ->
            <<"invalid", "object with jobdetail">>
      [] OTHER -> <<body>>

\* a search that finds the last tag
NgStateSearchLast(body) ==
    IF NgStateTags(body) = <<>> THEN None ELSE NgStateTags(body)[Len(NgStateTags(body))]

\* _NG_STATE_RE.search(resp.text): the first tag's text, or None
NgStateSearch(body) ==
    IF NgStateTags(body) = <<>> THEN None ELSE NgStateTags(body)[1]

\* json.loads(text): the exception raised, or the decoded value by its kind
\* and, for an object, its "jobdetail" member
JsonLoads(text) ==
    CASE text = "invalid" -> [exc |-> "ValueError", kind |-> None, jobdetail |-> None]
      [] text = "array" -> [exc |-> None, kind |-> "array", jobdetail |-> None]
      [] text = "object with jobdetail" ->
            [exc |-> None, kind |-> "object", jobdetail |-> JOBDETAIL]
      [] text = "object with other jobdetail" ->
            [exc |-> None, kind |-> "object", jobdetail |-> OTHER_JOBDETAIL]
      [] OTHER -> [exc |-> None, kind |-> "object", jobdetail |-> None]

NetworkError == [error |-> TRUE, status |-> 0, body |-> "none"]

\* what one client.get call may do
Responses(path) ==
    {NetworkError}
    \cup {[error |-> FALSE, status |-> st, body |-> "none"] : st \in Statuses \ {200}}
    \cup {[error |-> FALSE, status |-> 200, body |-> b] : b \in Bodies(path)}

RECURSIVE Pow2(_)
\* 2 ** n
Pow2(n) == IF n = 0 THEN 1 ELSE 2 * Pow2(n - 1)

\* delay = _BASE_DELAY * (2**attempt) + _BACKOFF_JITTER, in tenths of a second
Delay(attempt) == 10 * BASE_DELAY * Pow2(attempt) + BACKOFF_JITTER

\* a loop that gives up on 503
ShouldRetryNot503(status) == status \in RETRY_STATUSES \ {503}

\* resp.status_code in {403, 429, 500, 502, 503}
ShouldRetry(status) == status \in RETRY_STATUSES

\* the exceptions the path's except clause catches
Caught(path) ==
    IF path = "_fetch_detail_api" THEN {"HTTPError", "ValueError"} ELSE {"HTTPError"}

\* the 200 branch of the path: the value returned or the exception raised
OnOk(path, body) ==
    CASE path = "_get_with_retry" -> [exc |-> None, value |-> RESPONSE]
      [] path = "_fetch_detail_api" ->
            \* data = resp.json(); return data if isinstance(data, dict) else {}
            CASE body = "invalid" -> [exc |-> "ValueError", value |-> None]
              [] body = "object"  -> [exc |-> None, value |-> DATA]
              [] OTHER            -> [exc |-> None, value |-> EMPTY_DICT]
      [] path = "_fetch_detail" ->
            \* match = _NG_STATE_RE.search(resp.text); state = json.loads(...);
            \* return state.get("jobdetail", {})
            LET match == NgStateSearch(body)
                state == JsonLoads(match)
            IN  CASE match = None -> [exc |-> None, value |-> EMPTY_DICT]
                  [] match # None /\ state.exc # None ->
                        [exc |-> state.exc, value |-> None]
                  [] match # None /\ state.exc = None /\ state.kind # "object" ->
                        [exc |-> "AttributeError", value |-> None]
                  [] OTHER ->
                        [exc |-> None,
                         value |-> IF state.jobdetail = None THEN EMPTY_DICT
                                   ELSE state.jobdetail]

\* the value returned for "nothing": None by the search GET, {} by the others
EmptyResult(path) == IF path = "_get_with_retry" THEN None ELSE EMPTY_DICT

\* what the try block of one iteration does with the answer of client.get
TryBlock(path, resp) ==
    IF resp.error THEN [do |-> "except", exc |-> "HTTPError", value |-> None]
    ELSE IF resp.status = 200
    THEN LET ok == OnOk(path, resp.body)
         IN  IF ok.exc = None THEN [do |-> "return", exc |-> None, value |-> ok.value]
             ELSE [do |-> "except", exc |-> ok.exc, value |-> None]
    ELSE IF ShouldRetry(resp.status)
    THEN [do |-> "continue", exc |-> None, value |-> None]
    ELSE [do |-> "return", exc |-> None, value |-> EmptyResult(path)]

BaInit ==
    /\ ba_path \in Paths
    /\ ba_attempt = 0
    /\ ba_pc = "loop"
    /\ ba_last_exc = FALSE
    /\ ba_responses = <<>>
    /\ ba_sleeps = <<>>
    /\ ba_result = None
    /\ ba_raised = None

\* an iteration whose request is answered with 200, or with a status that is
\* not retried: the function returns
AttemptReturns ==
    /\ ba_pc = "loop"
    /\ ba_attempt < MAX_RETRIES
    /\ \E resp \in Responses(ba_path) :
          /\ TryBlock(ba_path, resp).do = "return"
          /\ ba_responses' = Append(ba_responses, resp)
          /\ ba_result' = TryBlock(ba_path, resp).value
    /\ ba_pc' = "returned"
    /\ UNCHANGED <<ba_path, ba_attempt, ba_last_exc, ba_sleeps, ba_raised>>
    /\ UNCHANGED <<orch_vars, cs_vars, more_vars>>

\* an iteration whose request is answered with a retried status: sleep, continue
AttemptRetriedStatus ==
    /\ ba_pc = "loop"
    /\ ba_attempt < MAX_RETRIES
    /\ \E resp \in Responses(ba_path) :
          /\ TryBlock(ba_path, resp).do = "continue"
          /\ ba_responses' = Append(ba_responses, resp)
    /\ ba_sleeps' = Append(ba_sleeps, Delay(ba_attempt))
    /\ ba_attempt' = ba_attempt + 1
    /\ UNCHANGED <<ba_path, ba_pc, ba_last_exc, ba_result, ba_raised>>
    /\ UNCHANGED <<orch_vars, cs_vars, more_vars>>

\* an iteration whose try block raises an exception the except clause catches:
\* last_exc is set, sleep, next iteration
AttemptCaught ==
    /\ ba_pc = "loop"
    /\ ba_attempt < MAX_RETRIES
    /\ \E resp \in Responses(ba_path) :
          /\ TryBlock(ba_path, resp).do = "except"
          /\ TryBlock(ba_path, resp).exc \in Caught(ba_path)
          /\ ba_responses' = Append(ba_responses, resp)
    /\ ba_last_exc' = TRUE
    /\ ba_sleeps' = Append(ba_sleeps, Delay(ba_attempt))
    /\ ba_attempt' = ba_attempt + 1
    /\ UNCHANGED <<ba_path, ba_pc, ba_result, ba_raised>>
    /\ UNCHANGED <<orch_vars, cs_vars, more_vars>>

\* an iteration whose try block raises an exception the except clause does not
\* catch: it leaves the function
AttemptRaises ==
    /\ ba_pc = "loop"
    /\ ba_attempt < MAX_RETRIES
    /\ \E resp \in Responses(ba_path) :
          /\ TryBlock(ba_path, resp).do = "except"
          /\ TryBlock(ba_path, resp).exc \notin Caught(ba_path)
          /\ ba_responses' = Append(ba_responses, resp)
          /\ ba_raised' = TryBlock(ba_path, resp).exc
    /\ ba_pc' = "raised"
    /\ UNCHANGED <<ba_path, ba_attempt, ba_last_exc, ba_sleeps, ba_result>>
    /\ UNCHANGED <<orch_vars, cs_vars, more_vars>>

\* range(_MAX_RETRIES) is used up: the function returns its empty value
RetriesExhausted ==
    /\ ba_pc = "loop"
    /\ ba_attempt >= MAX_RETRIES
    /\ ba_result' = EmptyResult(ba_path)
    /\ ba_pc' = "returned"
    /\ UNCHANGED <<ba_path, ba_attempt, ba_last_exc, ba_responses, ba_sleeps, ba_raised>>
    /\ UNCHANGED <<orch_vars, cs_vars, more_vars>>

NextRetry ==
    \/ AttemptReturns
    \/ AttemptRetriedStatus
    \/ AttemptCaught
    \/ AttemptRaises
    \/ RetriesExhausted

\* One call of one of the three HTTP paths.
InitRetry == OrchIdle /\ CsIdle /\ BaInit /\ MoreIdle
SpecRetry == InitRetry /\ [][NextRetry]_vars

(***************************************************************************)
(* bundesagentur.py: BundesagenturProvider.search and its page loop        *)
(* _search_items                                                           *)
(***************************************************************************)
MAX_PAGES == 100
\* page_size = min(max_results, 50)
PAGE_SIZE_CAP == 50

MaxResults == 120

BsQueries == {"", " ", "Softwareentwickler"}
MaxResultsChoices == {0, 1, 3, MaxResults}

\* What a page request may be answered with: nothing (resp is None), or a
\* page with some records carrying a refnr, and a declared total.  The
\* records without a refnr are dropped by _parse_search_results.
PageRecordCounts == {0, 1, 2, PAGE_SIZE_CAP, PAGE_SIZE_CAP + 10}
DeclaredTotals == {0, PAGE_SIZE_CAP + 10, 10 * MAX_PAGES}

PageAnswers ==
    {[none |-> TRUE, records |-> 0, total |-> 0]}
    \cup {[none |-> FALSE, records |-> n, total |-> t] :
             n \in PageRecordCounts, t \in DeclaredTotals}

\* a slice that keeps everything
SliceLenWhole(n, max_results) == n

\* len(items[:max_results]) for len(items) = n and max_results >= 0
SliceLen(n, max_results) == Min2(n, max_results)

BsInit ==
    /\ bs_query \in BsQueries
    /\ bs_max_results \in MaxResultsChoices
    /\ bs_pc = "start"
    /\ bs_page_size = 0
    /\ bs_page = 0
    /\ bs_items = 0
    /\ bs_requests = <<>>
    /\ bs_answer = NO_ANSWER
    /\ bs_result = 0

\* if not query or not query.strip(): return []
BsEmptyQuery ==
    /\ bs_pc = "start"
    /\ Strip(bs_query) = ""
    /\ bs_result' = 0
    /\ bs_pc' = "done"
    /\ UNCHANGED <<bs_query, bs_max_results, bs_page_size, bs_page, bs_items, bs_requests,
                   bs_answer>>
    /\ UNCHANGED <<new_vars, orch_vars, cs_vars, ba_vars, pq_vars, lo_vars>>

\* a search whose page size is max_results itself
BsBeginUncappedSize ==
    /\ bs_pc = "start"
    /\ Strip(bs_query) # ""
    /\ bs_page_size' = bs_max_results
    /\ bs_items' = 0
    /\ bs_page' = 1
    /\ bs_pc' = "loop"
    /\ UNCHANGED <<bs_query, bs_max_results, bs_requests, bs_answer, bs_result>>
    /\ UNCHANGED <<new_vars, orch_vars, cs_vars, ba_vars, pq_vars, lo_vars>>

\* _search_items is entered
BsBegin ==
    /\ bs_pc = "start"
    /\ Strip(bs_query) # ""
    /\ bs_page_size' = Min2(bs_max_results, PAGE_SIZE_CAP)
    /\ bs_items' = 0
    /\ bs_page' = 1
    /\ bs_pc' = "loop"
    /\ UNCHANGED <<bs_query, bs_max_results, bs_requests, bs_answer, bs_result>>
    /\ UNCHANGED <<new_vars, orch_vars, cs_vars, ba_vars, pq_vars, lo_vars>>

\* one iteration of the while loop: the page is requested and what it holds
\* is added to items
BsPage ==
    /\ bs_pc = "loop"
    /\ bs_items < bs_max_results /\ bs_page <= MAX_PAGES
    /\ bs_requests' = Append(bs_requests, [page |-> bs_page, size |-> bs_page_size])
    /\ \E answer \in PageAnswers :
          /\ bs_answer' = answer
          /\ IF answer.none \/ answer.records = 0
             THEN /\ bs_pc' = "return"
                  /\ UNCHANGED <<bs_items, bs_page>>
             ELSE /\ bs_items' = bs_items + answer.records
                  /\ IF bs_items + answer.records >= answer.total
                        \/ bs_items + answer.records >= bs_max_results
                     THEN bs_pc' = "return" /\ bs_page' = bs_page
                     ELSE bs_pc' = "loop" /\ bs_page' = bs_page + 1
    /\ UNCHANGED <<bs_query, bs_max_results, bs_page_size, bs_result>>
    /\ UNCHANGED <<new_vars, orch_vars, cs_vars, ba_vars, pq_vars, lo_vars>>

\* the while condition fails
BsLoopExit ==
    /\ bs_pc = "loop"
    /\ ~(bs_items < bs_max_results /\ bs_page <= MAX_PAGES)
    /\ bs_pc' = "return"
    /\ UNCHANGED <<bs_query, bs_max_results, bs_page_size, bs_page, bs_items,
                   bs_requests, bs_answer, bs_result>>
    /\ UNCHANGED <<new_vars, orch_vars, cs_vars, ba_vars, pq_vars, lo_vars>>

\* return items[:max_results]; search returns [] for no items and otherwise
\* _enrich's list, one listing per item
BsReturn ==
    /\ bs_pc = "return"
    /\ bs_result' = SliceLen(bs_items, bs_max_results)
    /\ bs_pc' = "done"
    /\ UNCHANGED <<bs_query, bs_max_results, bs_page_size, bs_page, bs_items, bs_requests,
                   bs_answer>>
    /\ UNCHANGED <<new_vars, orch_vars, cs_vars, ba_vars, pq_vars, lo_vars>>

NextPages ==
    \/ BsEmptyQuery
    \/ BsBegin
    \/ BsPage
    \/ BsLoopExit
    \/ BsReturn

\* One BundesagenturProvider.search call.
InitPages == OrchIdle /\ CsIdle /\ BaIdle /\ BsInit /\ PqIdle /\ LoIdle /\ NewIdle
SpecPages == InitPages /\ [][NextPages]_vars

(***************************************************************************)
(* The apply options of a listing: serpapi_provider.py parse_job_results   *)
(* and bundesagentur.py _parse_listing                                     *)
(***************************************************************************)
\* serpapi_provider.py: BLOCKED_PORTALS
BLOCKED_PORTALS ==
    { "bebee", "trabajo", "jooble", "adzuna", "jobrapido", "neuvoo", "mitula",
      "trovit", "jobomas", "jobijoba", "talent", "jobatus", "jobsora",
      "studysmarter", "jobilize", "learn4good", "grabjobs", "jobtensor", "zycto",
      "terra.do", "jobzmall", "simplyhired" }

MaxOptions == 2

\* ApplyOption(source, url)
ApplyOption(source, url) == [source |-> source, url |-> url]

\* any(blocked in url for blocked in BLOCKED_PORTALS)
AnyBlockedIn(url) == \E blocked \in BLOCKED_PORTALS : Contains(url, blocked)

\* the link values of a SerpApi apply option
SerpLinks ==
    { "https://linkedin.com/jobs/1",
      "https://bebee.com/jobs/1",
      "https://de.Jooble.org/desc/1",
      "https://firma.de/karriere" }

\* an apply option of a SerpApi record; None stands for a missing key
SerpOptionPool ==
    {[title |-> t, link |-> l] : t \in {None, "Apply"}, l \in SerpLinks \cup {None}}

\* job_data.get("apply_options", []) of one record
SerpOptionLists == UNION {[1..n -> SerpOptionPool] : n \in 0..MaxOptions}

RECURSIVE SerpApplyOptions(_, _)
\* the loop over job_data's apply options, from option i on
SerpApplyOptions(options, i) ==
    IF i > Len(options) THEN <<>>
    ELSE LET option == options[i]
             kept == /\ option.title # None
                     /\ option.link # None
                     /\ ~AnyBlockedIn(Lower(option.link))
         IN  (IF kept THEN <<ApplyOption(option.title, option.link)>> ELSE <<>>)
             \o SerpApplyOptions(options, i + 1)

\* _build_ba_link(refnr)
build_ba_link(refnr) == "https://www.arbeitsagentur.de/jobsuche/jobdetail/" \o refnr

DIGITS == "0123456789"
Chars(s) == {SubSeq(s, i, i) : i \in 1..Len(s)}

\* re.match(r"^[a-zA-Z][a-zA-Z0-9+.-]*://", url)
HasScheme(url) ==
    \E n \in 1..(Len(url) - 3) :
        /\ SubSeq(url, n + 1, n + 3) = "://"
        /\ SubSeq(url, 1, 1) \in Chars(UPPER) \cup Chars(LOWER)
        /\ \A k \in 2..n :
              SubSeq(url, k, k) \in Chars(UPPER) \cup Chars(LOWER) \cup Chars(DIGITS)
                                      \cup {"+", ".", "-"}

\* the values of detail["allianzpartnerUrl"]
AllianzpartnerUrls ==
    { " ",
      "https://karriere.firma.de/jobs/1",
      " //karriere.firma.de/jobs/1",
      "karriere.firma.de/jobs/1",
      "https://www.talent.com/view?id=1",
      "www.Adzuna.de/details/1",
      "//de.jooble.org/desc/1" }

\* the detail argument: None, an empty dict, a dict without the key (None
\* stands for the missing key), or a dict with it
BaDetails ==
    {[given |-> FALSE, empty |-> TRUE, allianzpartnerUrl |-> None],
     [given |-> TRUE, empty |-> TRUE, allianzpartnerUrl |-> None],
     [given |-> TRUE, empty |-> FALSE, allianzpartnerUrl |-> None]}
    \cup {[given |-> TRUE, empty |-> FALSE, allianzpartnerUrl |-> u] :
              u \in AllianzpartnerUrls}

\* item["refnr"]; "" when the item has none
BaRefnrs == {"", "10000-1200000000-S"}

\* the external URL, normalised: "//host" gets "https:", a URL without a
\* scheme gets "https://"
ExternalUrl(raw) ==
    LET ext_url == Strip(raw)
    IN  IF StartsWith(ext_url, "//") THEN "https:" \o ext_url
        ELSE IF ~HasScheme(ext_url) THEN "https://" \o ext_url
        ELSE ext_url

\* apply_options of _parse_listing(item, detail)
BaApplyOptions(refnr, detail) ==
    <<ApplyOption("Arbeitsagentur", build_ba_link(refnr))>>
    \o (IF detail.given /\ ~detail.empty /\ detail.allianzpartnerUrl # None
            /\ Strip(detail.allianzpartnerUrl) # ""
        THEN <<ApplyOption("Company Website", ExternalUrl(detail.allianzpartnerUrl))>>
        ELSE <<>>)

LoInit ==
    /\ lo_provider \in {"serpapi", "bundesagentur"}
    /\ lo_input \in IF lo_provider = "serpapi"
                     THEN {[apply_options |-> o] : o \in SerpOptionLists}
                     ELSE {[refnr |-> r, detail |-> d] : r \in BaRefnrs, d \in BaDetails}
    /\ lo_pc = "start"
    /\ lo_options = <<>>

\* parse_job_results, the body of its loop for one record: the record is
\* skipped when no apply option is left, else a listing is emitted.
LoSerpRecord ==
    /\ lo_pc = "start"
    /\ lo_provider = "serpapi"
    /\ LET apply_options == SerpApplyOptions(lo_input.apply_options, 1)
       IN  /\ lo_options' = apply_options
           /\ lo_pc' = IF apply_options = <<>> THEN "skipped" ELSE "emitted"
    /\ UNCHANGED <<lo_provider, lo_input>>
    /\ UNCHANGED <<new_vars, orch_vars, cs_vars, ba_vars, bs_vars, pq_vars>>

\* _parse_listing(item, detail): None without a refnr, else a listing.
LoBaListing ==
    /\ lo_pc = "start"
    /\ lo_provider = "bundesagentur"
    /\ IF lo_input.refnr = ""
       THEN /\ lo_options' = <<>>
            /\ lo_pc' = "skipped"
       ELSE /\ lo_options' = BaApplyOptions(lo_input.refnr, lo_input.detail)
            /\ lo_pc' = "emitted"
    /\ UNCHANGED <<lo_provider, lo_input>>
    /\ UNCHANGED <<new_vars, orch_vars, cs_vars, ba_vars, bs_vars, pq_vars>>

NextListing ==
    \/ LoSerpRecord
    \/ LoBaListing

\* One record of either provider turned into a listing.
InitListing == OrchIdle /\ CsIdle /\ BaIdle /\ BsIdle /\ PqIdle /\ LoInit /\ NewIdle
SpecListing == InitListing /\ [][NextListing]_vars

(***************************************************************************)
(* bundesagentur.py: _enrich and _get_detail                               *)
(***************************************************************************)
MaxItems == 2

\* item["refnr"] of the records _parse_search_results lets through
Refnrs == {"r1", "r2"}

\* the items of one search, a page may repeat a record of the page before
ItemLists == UNION {[1..n -> Refnrs] : n \in 1..MaxItems}

DetailStrategies == {"api_then_html", "api_only", "html_only"}

\* what _fetch_detail_api and _fetch_detail return for a refnr when they
\* return something
ApiDetail(refnr) == "api detail of " \o refnr
HtmlDetail(refnr) == "html detail of " \o refnr

\* a submitted _get_detail call that has not started
NewFuture == [state |-> "pending", calls |-> <<>>, api |-> None, result |-> None,
              raised |-> FALSE]

EnInit ==
    /\ en_strategy \in DetailStrategies
    /\ en_items \in ItemLists
    /\ en_futures = [i \in 1..Len(en_items) |-> NewFuture]
    /\ en_collected = {}
    /\ en_details = <<>>
    /\ en_pc = "collect"
    /\ en_result = <<>>

\* api_then_html goes on to the HTML page whatever the structured call returned
NeedsHtmlAlways(strategy, detail) == strategy = "api_then_html"

\* _get_detail after _fetch_detail_api: "if detail: return detail", and
\* api_only returns the structured detail as it is
NeedsHtml(strategy, detail) == strategy = "api_then_html" /\ detail = EMPTY_DICT

\* worker i calls _fetch_detail_api; the call returns a detail, returns {} or
\* raises
EnApi(i) ==
    /\ en_pc = "collect"
    /\ en_futures[i].state = "pending"
    /\ en_strategy # "html_only"
    /\ \E outcome \in {ApiDetail(en_items[i]), EMPTY_DICT, "raise"} :
          en_futures' = [en_futures EXCEPT ![i] =
              IF outcome = "raise"
              THEN [@ EXCEPT !.state = "done", !.calls = Append(@, "api"),
                             !.raised = TRUE]
              ELSE IF NeedsHtml(en_strategy, outcome)
              THEN [@ EXCEPT !.state = "api_done", !.calls = Append(@, "api"),
                             !.api = outcome]
              ELSE [@ EXCEPT !.state = "done", !.calls = Append(@, "api"),
                             !.api = outcome, !.result = outcome]]
    /\ UNCHANGED <<en_strategy, en_items, en_collected, en_details, en_pc, en_result>>
    /\ UNCHANGED <<orch_vars, cs_vars, ba_vars, bs_vars, pq_vars, lo_vars, sj_vars, lk_vars>>

\* worker i calls _fetch_detail: at once under html_only, after an empty
\* structured answer under api_then_html
EnHtml(i) ==
    /\ en_pc = "collect"
    /\ \/ en_futures[i].state = "pending" /\ en_strategy = "html_only"
       \/ en_futures[i].state = "api_done"
    /\ \E outcome \in {HtmlDetail(en_items[i]), EMPTY_DICT, "raise"} :
          en_futures' = [en_futures EXCEPT ![i] =
              IF outcome = "raise"
              THEN [@ EXCEPT !.state = "done", !.calls = Append(@, "html"),
                             !.raised = TRUE]
              ELSE [@ EXCEPT !.state = "done", !.calls = Append(@, "html"),
                             !.result = outcome]]
    /\ UNCHANGED <<en_strategy, en_items, en_collected, en_details, en_pc, en_result>>
    /\ UNCHANGED <<orch_vars, cs_vars, ba_vars, bs_vars, pq_vars, lo_vars, sj_vars, lk_vars>>

\* future.result() inside try/except Exception
Returned(future) == IF future.raised THEN EMPTY_DICT ELSE future.result

\* as_completed yields a finished future: details[refnr] = its result, or {}
EnCollect(i) ==
    /\ en_pc = "collect"
    /\ i \notin en_collected
    /\ en_futures[i].state = "done"
    /\ en_collected' = en_collected \cup {i}
    /\ en_details' = [r \in DOMAIN en_details \cup {en_items[i]} |->
                         IF r = en_items[i] THEN Returned(en_futures[i])
                         ELSE en_details[r]]
    /\ UNCHANGED <<en_strategy, en_items, en_futures, en_pc, en_result>>
    /\ UNCHANGED <<orch_vars, cs_vars, ba_vars, bs_vars, pq_vars, lo_vars, sj_vars, lk_vars>>

\* the listings in the order of the last item first
ListingsReversed(items, details) ==
    [k \in 1..Len(items) |->
        [refnr |-> items[Len(items) + 1 - k],
         detail |-> details[items[Len(items) + 1 - k]]]]

\* for item in items: _parse_listing(item, detail=details.get(refnr))
ListingsOf(items, details) ==
    [k \in 1..Len(items) |-> [refnr |-> items[k], detail |-> details[items[k]]]]

\* as_completed is exhausted, the pool is left and the listings are built
EnBuild ==
    /\ en_pc = "collect"
    /\ en_collected = 1..Len(en_items)
    /\ en_result' = ListingsOf(en_items, en_details)
    /\ en_pc' = "done"
    /\ UNCHANGED <<en_strategy, en_items, en_futures, en_collected, en_details>>
    /\ UNCHANGED <<orch_vars, cs_vars, ba_vars, bs_vars, pq_vars, lo_vars, sj_vars, lk_vars>>

NextEnrich ==
    \/ \E i \in 1..MaxItems : i <= Len(en_items) /\ EnApi(i)
    \/ \E i \in 1..MaxItems : i <= Len(en_items) /\ EnHtml(i)
    \/ \E i \in 1..MaxItems : i <= Len(en_items) /\ EnCollect(i)
    \/ EnBuild

\* One _enrich call on a non-empty list of items.
InitEnrich ==
    OrchIdle /\ CsIdle /\ BaIdle /\ BsIdle /\ PqIdle /\ LoIdle /\ SjIdle /\ EnInit /\ LkIdle
SpecEnrich == InitEnrich /\ [][NextEnrich]_vars

(***************************************************************************)
(* serpapi_provider.py: search_jobs and its continuation tokens            *)
(***************************************************************************)
MaxNumResults == 4

\* num_results, a count
NumResultsChoices == 0..MaxNumResults

\* len(parse_job_results(results)) of one page
SjPageListings == {0, 1, 2, MaxNumResults + 1}

\* results["serpapi_pagination"]["next_page_token"]: missing, empty, or one
\* of two opaque tokens
SjTokens == {None, "", "token-1", "token-2"}

SjAnswers == {[listings |-> n, token |-> t] : n \in SjPageListings, t \in SjTokens}

\* if next_page_token: (None and "" are falsy)
Truthy(token) == token # None /\ token # ""

SjInit ==
    /\ sj_num_results \in NumResultsChoices
    /\ sj_pc = "loop"
    /\ sj_all_jobs = 0
    /\ sj_token = None
    /\ sj_requests = <<>>
    /\ sj_answers = <<>>
    /\ sj_result = 0

\* a request that never sends the token
SjRequestTokenless ==
    /\ sj_pc = "loop"
    /\ sj_all_jobs < sj_num_results
    /\ sj_requests' = Append(sj_requests, None)
    /\ \E answer \in SjAnswers :
          /\ sj_answers' = Append(sj_answers, answer)
          /\ IF answer.listings = 0
             THEN /\ sj_pc' = "return"
                  /\ UNCHANGED <<sj_all_jobs, sj_token>>
             ELSE /\ sj_all_jobs' = sj_all_jobs + answer.listings
                  /\ sj_token' = answer.token
                  /\ sj_pc' = IF Truthy(answer.token) THEN "loop" ELSE "return"
    /\ UNCHANGED <<sj_num_results, sj_result>>
    /\ UNCHANGED <<orch_vars, cs_vars, ba_vars, bs_vars, pq_vars, lo_vars, en_vars, lk_vars>>

\* one iteration of the while loop: the request carries next_page_token when
\* there is one; the page's listings are added and its token is kept
SjRequest ==
    /\ sj_pc = "loop"
    /\ sj_all_jobs < sj_num_results
    /\ sj_requests' = Append(sj_requests, IF Truthy(sj_token) THEN sj_token ELSE None)
    /\ \E answer \in SjAnswers :
          /\ sj_answers' = Append(sj_answers, answer)
          /\ IF answer.listings = 0
             THEN /\ sj_pc' = "return"
                  /\ UNCHANGED <<sj_all_jobs, sj_token>>
             ELSE /\ sj_all_jobs' = sj_all_jobs + answer.listings
                  /\ sj_token' = answer.token
                  /\ sj_pc' = IF Truthy(answer.token) THEN "loop" ELSE "return"
    /\ UNCHANGED <<sj_num_results, sj_result>>
    /\ UNCHANGED <<orch_vars, cs_vars, ba_vars, bs_vars, pq_vars, lo_vars, en_vars, lk_vars>>

\* the while condition fails
SjLoopExit ==
    /\ sj_pc = "loop"
    /\ ~(sj_all_jobs < sj_num_results)
    /\ sj_pc' = "return"
    /\ UNCHANGED <<sj_num_results, sj_all_jobs, sj_token, sj_requests, sj_answers, sj_result>>
    /\ UNCHANGED <<orch_vars, cs_vars, ba_vars, bs_vars, pq_vars, lo_vars, en_vars, lk_vars>>

\* return all_jobs[:num_results]
SjReturn ==
    /\ sj_pc = "return"
    /\ sj_result' = Min2(sj_all_jobs, sj_num_results)
    /\ sj_pc' = "done"
    /\ UNCHANGED <<sj_num_results, sj_all_jobs, sj_token, sj_requests, sj_answers>>
    /\ UNCHANGED <<orch_vars, cs_vars, ba_vars, bs_vars, pq_vars, lo_vars, en_vars, lk_vars>>

NextSerpPages ==
    \/ SjRequest
    \/ SjLoopExit
    \/ SjReturn

\* One search_jobs call with SERPAPI_KEY set.
InitSerpPages ==
    OrchIdle /\ CsIdle /\ BaIdle /\ BsIdle /\ PqIdle /\ LoIdle /\ SjInit /\ EnIdle /\ LkIdle
SpecSerpPages == InitSerpPages /\ [][NextSerpPages]_vars

(***************************************************************************)
(* search_agent.py: the as_completed loop of search_all_queries, statement *)
(* by statement, with the lock and the callbacks                           *)
(***************************************************************************)
MaxTasks == 2

\* the dedup keys the searches can find
LkKeys == {"k1", "k2"}

\* what a task's future holds in the end: a list of listings, as the set of
\* their keys, or an exception
LkResults ==
    {[raised |-> FALSE, jobs |-> found] : found \in SUBSET LkKeys}
    \cup {[raised |-> TRUE, jobs |-> {}]}

\* min_unique_jobs for a single provider, and whether each callback was passed
LkArgs == [min_unique_jobs : {0, 1, 2}, on_progress : BOOLEAN, on_jobs_found : BOOLEAN]

LkInit ==
    /\ lk_args \in LkArgs
    /\ lk_tasks \in {[i \in 1..n |-> [state |-> "pending", result |-> [raised |-> FALSE, jobs |-> {}]]] : n \in 1..MaxTasks}
    /\ lk_pc = "wait"
    /\ lk_lock = FALSE
    /\ lk_future = 0
    /\ lk_seen = {}
    /\ lk_stop = FALSE
    /\ lk_events = <<>>
    /\ lk_all_jobs = {}
    /\ lk_batch_new = {}

\* one entry of the collecting thread's trace: what it did, for which future,
\* and whether the lock was held then
LkEvent(what) == [what |-> what, future |-> lk_future, held |-> lk_lock]

LkOthersIdle ==
    UNCHANGED <<orch_vars, cs_vars, ba_vars, bs_vars, pq_vars, lo_vars, sj_vars, en_vars>>

\* a worker enters _search_one: "if early_stop.is_set(): return []"
LkWorkerBegin(i) ==
    /\ lk_tasks[i].state = "pending"
    /\ lk_tasks' = [lk_tasks EXCEPT ![i].state = IF lk_stop THEN "done" ELSE "running"]
    /\ UNCHANGED <<lk_pc, lk_lock, lk_future, lk_seen, lk_stop, lk_events, lk_all_jobs,
                   lk_batch_new, lk_args>>
    /\ LkOthersIdle

\* provider.search returns or raises in the worker
LkWorkerFinish(i) ==
    /\ lk_tasks[i].state = "running"
    /\ \E result \in LkResults :
          lk_tasks' = [lk_tasks EXCEPT ![i] = [state |-> "done", result |-> result]]
    /\ UNCHANGED <<lk_pc, lk_lock, lk_future, lk_seen, lk_stop, lk_events, lk_all_jobs,
                   lk_batch_new, lk_args>>
    /\ LkOthersIdle

\* for future in as_completed(futures): the next finished future
LkYield(i) ==
    /\ lk_pc = "wait"
    /\ i \notin lk_seen
    /\ lk_tasks[i].state = "done"
    /\ lk_future' = i
    /\ lk_seen' = lk_seen \cup {i}
    /\ lk_pc' = "acquire"
    /\ UNCHANGED <<lk_tasks, lk_lock, lk_stop, lk_events, lk_all_jobs, lk_batch_new,
                   lk_args>>
    /\ LkOthersIdle

\* jobs = [] / try: jobs = future.result() / except Exception
LkJobs ==
    IF lk_tasks[lk_future].result.raised THEN {} ELSE lk_tasks[lk_future].result.jobs

\* with lock: (enter)
LkAcquire ==
    /\ lk_pc = "acquire"
    /\ ~lk_lock
    /\ lk_lock' = TRUE
    /\ lk_batch_new' = {}
    /\ lk_pc' = "merge"
    /\ UNCHANGED <<lk_tasks, lk_future, lk_seen, lk_stop, lk_events, lk_all_jobs, lk_args>>
    /\ LkOthersIdle

\* the for-loop over jobs
LkMerge ==
    /\ lk_pc = "merge"
    /\ lk_all_jobs' = lk_all_jobs \cup LkJobs
    /\ lk_batch_new' = LkJobs \ lk_all_jobs
    /\ lk_events' = Append(lk_events, LkEvent("merge"))
    /\ lk_pc' = "count"
    /\ UNCHANGED <<lk_tasks, lk_lock, lk_future, lk_seen, lk_stop, lk_args>>
    /\ LkOthersIdle

\* completed += 1, progress_args, quota_met, early_stop.set()
LkCount ==
    /\ lk_pc = "count"
    /\ lk_stop' = (lk_stop \/ (lk_args.min_unique_jobs # 0
                                /\ Cardinality(lk_all_jobs) >= lk_args.min_unique_jobs))
    /\ lk_events' = Append(lk_events, LkEvent("count"))
    /\ lk_pc' = "release"
    /\ UNCHANGED <<lk_tasks, lk_lock, lk_future, lk_seen, lk_all_jobs, lk_batch_new,
                   lk_args>>
    /\ LkOthersIdle

\* a block that keeps the lock while the callbacks run
LkReleaseLate ==
    /\ lk_pc = "release"
    /\ lk_pc' = "progress"
    /\ UNCHANGED <<lk_tasks, lk_lock, lk_future, lk_seen, lk_stop, lk_events,
                   lk_all_jobs, lk_batch_new, lk_args>>
    /\ LkOthersIdle

\* with lock: (exit)
LkRelease ==
    /\ lk_pc = "release"
    /\ lk_lock' = FALSE
    /\ lk_pc' = "progress"
    /\ UNCHANGED <<lk_tasks, lk_future, lk_seen, lk_stop, lk_events, lk_all_jobs,
                   lk_batch_new, lk_args>>
    /\ LkOthersIdle

\* if on_progress is not None: on_progress(*progress_args), the call
LkProgress ==
    /\ lk_pc = "progress"
    /\ IF lk_args.on_progress
       THEN /\ lk_events' = Append(lk_events, LkEvent("on_progress"))
            /\ lk_pc' = "in on_progress"
       ELSE /\ lk_events' = lk_events
            /\ lk_pc' = "found"
    /\ UNCHANGED <<lk_tasks, lk_lock, lk_future, lk_seen, lk_stop, lk_all_jobs,
                   lk_batch_new, lk_args>>
    /\ LkOthersIdle

\* on_progress returns
LkProgressReturns ==
    /\ lk_pc = "in on_progress"
    /\ lk_events' = Append(lk_events, LkEvent("on_progress returned"))
    /\ lk_pc' = "found"
    /\ UNCHANGED <<lk_tasks, lk_lock, lk_future, lk_seen, lk_stop, lk_all_jobs,
                   lk_batch_new, lk_args>>
    /\ LkOthersIdle

\* if batch_new and on_jobs_found is not None: on_jobs_found(batch_new)
LkFound ==
    /\ lk_pc = "found"
    /\ IF lk_batch_new # {} /\ lk_args.on_jobs_found
       THEN /\ lk_events' = Append(lk_events, LkEvent("on_jobs_found"))
            /\ lk_pc' = "in on_jobs_found"
       ELSE /\ lk_events' = lk_events
            /\ lk_pc' = "cancel"
    /\ UNCHANGED <<lk_tasks, lk_lock, lk_future, lk_seen, lk_stop, lk_all_jobs,
                   lk_batch_new, lk_args>>
    /\ LkOthersIdle

\* on_jobs_found returns
LkFoundReturns ==
    /\ lk_pc = "in on_jobs_found"
    /\ lk_events' = Append(lk_events, LkEvent("on_jobs_found returned"))
    /\ lk_pc' = "cancel"
    /\ UNCHANGED <<lk_tasks, lk_lock, lk_future, lk_seen, lk_stop, lk_all_jobs,
                   lk_batch_new, lk_args>>
    /\ LkOthersIdle

\* if early_stop.is_set(): cancel what has not started and break; otherwise
\* the next iteration, or the end of the loop
LkCancel ==
    /\ lk_pc = "cancel"
    /\ IF lk_stop
       THEN /\ lk_tasks' = [i \in DOMAIN lk_tasks |->
                               IF lk_tasks[i].state = "pending"
                               THEN [lk_tasks[i] EXCEPT !.state = "cancelled"]
                               ELSE lk_tasks[i]]
            /\ lk_pc' = "exit"
       ELSE /\ lk_tasks' = lk_tasks
            /\ lk_pc' = IF lk_seen = DOMAIN lk_tasks THEN "exit" ELSE "wait"
    /\ UNCHANGED <<lk_lock, lk_future, lk_seen, lk_stop, lk_events, lk_all_jobs,
                   lk_batch_new, lk_args>>
    /\ LkOthersIdle

\* the executor's __exit__, then the return
LkExit ==
    /\ lk_pc = "exit"
    /\ \A i \in DOMAIN lk_tasks : lk_tasks[i].state \in {"done", "cancelled"}
    /\ lk_pc' = "returned"
    /\ UNCHANGED <<lk_tasks, lk_lock, lk_future, lk_seen, lk_stop, lk_events,
                   lk_all_jobs, lk_batch_new, lk_args>>
    /\ LkOthersIdle

NextLock ==
    \/ \E i \in 1..MaxTasks : i \in DOMAIN lk_tasks /\ LkWorkerBegin(i)
    \/ \E i \in 1..MaxTasks : i \in DOMAIN lk_tasks /\ LkWorkerFinish(i)
    \/ \E i \in 1..MaxTasks : i \in DOMAIN lk_tasks /\ LkYield(i)
    \/ LkAcquire
    \/ LkMerge
    \/ LkCount
    \/ LkRelease
    \/ LkProgress
    \/ LkProgressReturns
    \/ LkFound
    \/ LkFoundReturns
    \/ LkCancel
    \/ LkExit

\* One run of the loop over one or two tasks.
InitLock ==
    OrchIdle /\ CsIdle /\ BaIdle /\ BsIdle /\ PqIdle /\ LoIdle /\ SjIdle /\ EnIdle /\ LkInit
SpecLock == InitLock /\ [][NextLock]_vars

(***************************************************************************)
(* search_provider.py: parse_provider_query on arbitrary strings           *)
(***************************************************************************)
MaxTokens == 5

\* the pieces the input strings are put together from
QueryTokens == <<PROVIDER_QUERY_PREFIX, PROVIDER_QUERY_SEPARATOR, ":", " ", "A", "q">>

RECURSIVE Concat(_)
\* "".join(parts)
Concat(parts) == IF parts = <<>> THEN "" ELSE Head(parts) \o Concat(Tail(parts))

\* every string of at most `most` pieces
QueryStrings(most) ==
    UNION {{Concat([i \in 1..n |-> QueryTokens[picks[i]]]) :
                picks \in [1..n -> 1..Len(QueryTokens)]} : n \in 0..most}

PqInit ==
    /\ pq_input \in QueryStrings(MaxTokens)
    /\ pq_pc = "start"
    /\ pq_result = <<>>

\* parse_provider_query(query) is called and returns.
PqParse ==
    /\ pq_pc = "start"
    /\ pq_result' = parse_provider_query(pq_input)
    /\ pq_pc' = "done"
    /\ UNCHANGED pq_input
    /\ UNCHANGED <<new_vars, orch_vars, cs_vars, ba_vars, bs_vars, lo_vars>>

NextParse == PqParse

\* One parse_provider_query call.
InitParse == OrchIdle /\ CsIdle /\ BaIdle /\ BsIdle /\ PqInit /\ LoIdle /\ NewIdle
SpecParse == InitParse /\ [][NextParse]_vars

(***************************************************************************)
(* Properties of search_all_queries                                        *)
(***************************************************************************)
\* the tasks whose results the loop has merged
Accepted == yielded

\* what the loop read from task i: future.result(), or [] when it raised
ResultOf(i) == IF futures[i].raised THEN <<>> ELSE futures[i].jobs

\* the number of stored listings whose source is `source`
Contributed(source) ==
    Cardinality({i \in 1..Len(all_jobs) : SourceKey(all_jobs[i].job.source) = source})

\* C1: in the returned list no two listings share a (title, company_name,
\* location) triple, and every triple found in the result of an accepted task
\* occurs in it (hence exactly once).
C1_OneListingPerTriple ==
    pc = "returned" =>
        /\ \A a, b \in 1..Len(returned) :
              Triple(returned[a]) = Triple(returned[b]) => a = b
        /\ \A i \in Accepted : \A k \in 1..Len(ResultOf(i)) :
              \E a \in 1..Len(returned) : Triple(returned[a]) = Triple(ResultOf(i)[k])

\* C2: with a combined provider and min_unique_jobs > 0, while a tracked source
\* has contributed fewer than 30 unique listings early stop is not signalled
\* and the loop goes on accepting results until every task was read.
C2_NoStopBelowFloor ==
    (/\ provider.combined
     /\ min_unique_arg > 0
     /\ \E source \in quota_sources : Contributed(source) < MIN_JOBS_PER_PROVIDER)
    => /\ ~early_stop
       /\ pc \in {"shutdown", "returned"} => Accepted = DOMAIN futures

\* C2's case: a completion at which the unique count has reached the effective
\* minimum while one tracked source is still below 30.
C2_Witness ==
    /\ provider.combined
    /\ min_unique_arg > 0
    /\ pc = "callbacks"
    /\ Len(all_jobs) >= min_unique_jobs
    /\ \E source \in quota_sources : Contributed(source) = 0
    /\ \E source \in quota_sources : Contributed(source) >= 2 * MIN_JOBS_PER_PROVIDER - 1
    /\ ~early_stop

\* The effective minimum as the specification words it: min_unique_jobs itself
\* for a single provider, max(min_unique_jobs, 30 x tracked sources) for a
\* combined one.
StatedMinimum ==
    IF provider.combined
    THEN Max2(min_unique_arg, MIN_JOBS_PER_PROVIDER * Cardinality(quota_sources))
    ELSE min_unique_arg

\* right after a merge, the unique count has reached the stated minimum and
\* every tracked source its floor
FloorsReached ==
    /\ pc = "callbacks"
    /\ Len(all_jobs) >= StatedMinimum
    /\ \A source \in quota_sources : Contributed(source) >= MIN_JOBS_PER_PROVIDER

\* once early stop is signalled: a task that has not started is cancelled or
\* returns without calling the provider, and the collection stays as it is
AfterStop ==
    early_stop =>
        /\ all_jobs' = all_jobs
        /\ \A i \in DOMAIN futures :
              futures[i].state = "pending" =>
                 /\ futures'[i].state \in {"pending", "cancelled", "done"}
                 /\ ~futures'[i].called
                 /\ futures'[i].jobs = <<>>

\* no task is left waiting when the function has returned after an early stop
NoneLeftPending ==
    (early_stop /\ pc = "returned") =>
        \A i \in DOMAIN futures : futures[i].state \in {"done", "cancelled"}

\* C3 as stated: whenever the floors are reached right after a merge, early
\* stop is signalled at that completion, unstarted tasks never call the
\* provider and nothing is added afterwards.
C3_StopWhenFloorsReached ==
    /\ [](FloorsReached => early_stop)
    /\ []NoneLeftPending
    /\ [][AfterStop]_vars

\* C3 amended: the same for min_unique_jobs > 0.
C3_StopWhenFloorsReachedNonZero ==
    /\ []((min_unique_arg > 0 /\ FloorsReached) => early_stop)
    /\ []NoneLeftPending
    /\ [][AfterStop]_vars

\* C3's case: early stop was signalled at a completion while another task had
\* not started, and that task was cancelled.
C3_Witness ==
    /\ early_stop
    /\ pc = "returned"
    /\ provider.combined
    /\ \E i \in DOMAIN futures : futures[i].state = "cancelled"
    /\ Len(returned) >= StatedMinimum

\* C3's other case: a task that began after the signal returned without
\* calling the provider.
C3_WitnessSkipped ==
    /\ early_stop
    /\ pc = "returned"
    /\ \E i \in DOMAIN futures : futures[i].state = "done" /\ ~futures[i].called

\* C4: the k-th on_progress call reports completed = k, total = the number of
\* queries, and a unique count that is not below the previous call's.
C4_ProgressMonotone ==
    \A k \in 1..Len(progress_calls) :
        /\ progress_calls[k][1] = k
        /\ progress_calls[k][2] = Len(queries)
        /\ k > 1 => progress_calls[k][3] >= progress_calls[k - 1][3]

\* C4's case: two calls, the second after a task that raised or found
\* nothing new, following a first call that reported listings.
C4_Witness ==
    /\ Len(progress_calls) >= 2
    /\ progress_calls[1][3] > 0
    /\ progress_calls[2][3] = progress_calls[1][3]
    /\ \E i \in Accepted : ResultOf(i) # <<>> /\ i # 1

\* C7: with min_unique_jobs = 0 the effective minimum stays 0, early stop is
\* never signalled, no task is cancelled or skipped, and once the function has
\* returned every query's task has called the provider, its result was read
\* and on_progress has fired once per query.
C7_ZeroDisablesQuota ==
    min_unique_arg = 0 =>
        /\ min_unique_jobs = 0
        /\ ~early_stop
        /\ \A i \in DOMAIN futures :
              /\ futures[i].state # "cancelled"
              /\ futures[i].state = "done" => futures[i].called
        /\ pc = "returned" =>
              /\ Accepted = DOMAIN futures
              /\ Len(progress_calls) = Len(queries)
              /\ completed = Len(queries)

\* C7's case: a combined provider, min_unique_jobs = 0, and a finished run in
\* which every tracked source passed its floor of 30.
C7_Witness ==
    /\ min_unique_arg = 0
    /\ provider.combined
    /\ pc = "returned"
    /\ Len(queries) = 2
    /\ \A source \in quota_sources : Contributed(source) >= MIN_JOBS_PER_PROVIDER

(***************************************************************************)
(* Properties of CombinedSearchProvider.search                             *)
(***************************************************************************)
\* the names of the children, in self.providers' order
ChildNames == [i \in 1..Len(cs_providers) |-> cs_providers[i].name]

\* the children whose search was invoked, in call order
Invoked == [c \in 1..Len(cs_calls) |-> cs_calls[c].provider]

\* the query names child X with text foo behind the routing prefix
RoutedTo(X, foo) == cs_query = PROVIDER_QUERY_PREFIX \o X \o PROVIDER_QUERY_SEPARATOR \o foo

\* the routing prefix is absent, or names no child
Unrouted ==
    \/ ~StartsWith(cs_query, PROVIDER_QUERY_PREFIX)
    \/ \E X \in RoutedNames, foo \in RoutedTexts :
          /\ RoutedTo(X, foo)
          /\ \A i \in 1..Len(cs_providers) : cs_providers[i].name # X

\* C5 as stated: a finished call with a query provider=X::foo, X a child's
\* name, has invoked that child alone, with exactly foo; a finished call whose
\* query has no prefix or names no child has invoked every child.
C5_RoutedQueryOneChild ==
    cs_pc = "done" =>
        /\ \A i \in 1..Len(cs_providers) : \A foo \in RoutedTexts :
              RoutedTo(cs_providers[i].name, foo) =>
                 /\ Invoked = <<cs_providers[i].name>>
                 /\ cs_calls[1].query = foo
        /\ Unrouted => Invoked = ChildNames

\* C5 amended: the same for max_results > 0 and a text foo that is not blank,
\* the child receiving foo without its surrounding whitespace.
C5_RoutedQueryOneChildPositive ==
    (cs_pc = "done" /\ cs_max_results > 0) =>
        /\ \A i \in 1..Len(cs_providers) : \A foo \in RoutedTexts :
              (RoutedTo(cs_providers[i].name, foo) /\ Strip(foo) # "") =>
                 /\ Invoked = <<cs_providers[i].name>>
                 /\ cs_calls[1].query = Strip(foo)
        /\ Unrouted => Invoked = ChildNames

\* C5's case: of two children the second is named by the query and was the
\* only one invoked.
C5_Witness ==
    /\ cs_pc = "done"
    /\ cs_providers = <<BundesagenturProvider, SerpApiProvider>>
    /\ RoutedTo(SERP_NAME, " Backend Engineer ")
    /\ Invoked = <<SERP_NAME>>
    /\ cs_result # <<>>

RECURSIVE BudgetSum(_)
\* the sum of the max_results of the first n child calls
BudgetSum(n) == IF n = 0 THEN 0 ELSE cs_calls[n].max_results + BudgetSum(n - 1)

\* ceil(m / k), as the least c with c * k >= m
CeilOf(m, k) == CHOOSE c \in 0..m : c * k >= m /\ (c - 1) * k < m

\* C6: with max_results = m > 0 and k selected children, every child call has
\* max_results <= ceil(m/k), the budgets handed out sum to at most m + k - 1,
\* and the returned list has at most m listings.
C6_BudgetSplit ==
    (cs_max_results > 0 /\ cs_pc \in {"loop", "done"} /\ cs_providers # <<>>) =>
        LET m == cs_max_results
            k == Len(cs_selected)
        IN  /\ \A c \in 1..Len(cs_calls) : cs_calls[c].max_results <= CeilOf(m, k)
            /\ BudgetSum(Len(cs_calls)) <= m + k - 1
            /\ cs_pc = "done" => Len(cs_result) <= m

\* C6's case: a budget of 3 over two children, both answering in full, so
\* that the budgets sum to m + k - 1 and the merged list is cut to m.
C6_Witness ==
    /\ cs_pc = "done"
    /\ cs_max_results = 3
    /\ Len(cs_selected) = 2
    /\ BudgetSum(Len(cs_calls)) = 4
    /\ Len(cs_merged) = 4
    /\ Len(cs_result) = 3

(***************************************************************************)
(* Properties of search_all_queries under failing providers                *)
(***************************************************************************)
\* the as_completed loop takes up the finished task i, whose search raised
CollectsRaised(i) ==
    /\ i \in DOMAIN futures
    /\ i \notin yielded
    /\ i \in yielded'
    /\ futures[i].raised

\* a raising task is counted as completed, adds no listing, and the progress
\* callback is about to be told so
CountedWithZeroListings ==
    \A i \in DOMAIN futures :
        CollectsRaised(i) =>
            /\ completed' = completed + 1
            /\ all_jobs' = all_jobs
            /\ batch_new' = <<>>
            /\ pc' = "callbacks"
            /\ progress_args' = <<completed + 1, Len(queries), Len(all_jobs)>>

\* every completion counted so far has had its on_progress call, but the one
\* whose callbacks are being run
ProgressFiredPerCompletion ==
    Len(progress_calls) = completed - (IF pc = "callbacks" THEN 1 ELSE 0)

\* a list without two listings of the same dedup key
Deduplicated(jobs) ==
    Cardinality({DedupKey(jobs[a]) : a \in 1..Len(jobs)}) = Len(jobs)

\* C13: search_all_queries never ends by raising; a task whose search raised
\* is counted as completed with zero listings and on_progress is called for
\* it; without early stop every other task is still collected; and the call
\* returns a deduplicated, possibly empty, list.
C13_ProviderFailureContained ==
    /\ [](pc # "raised")
    /\ [][CountedWithZeroListings]_vars
    /\ [](pc # "idle" => ProgressFiredPerCompletion)
    /\ []((pc = "returned" /\ ~early_stop) => yielded = DOMAIN futures)
    /\ [](pc = "returned" =>
            /\ returned = Values(all_jobs)
            /\ Deduplicated(returned)
            /\ completed = Cardinality(yielded))

\* C13's case: a run of two queries returned; the search of one raised, the
\* other's listings were returned, and on_progress was called for both.
C13_Witness ==
    /\ pc = "returned"
    /\ Len(queries) = 2
    /\ \E i, j \in yielded :
          /\ futures[i].raised
          /\ ~futures[j].raised /\ futures[j].jobs # <<>>
    /\ returned # <<>>
    /\ Len(progress_calls) = 2

\* C14: a task whose search met the configuration error of SerpApiProvider
\* (ValueError, SERPAPI_KEY not set) makes search_all_queries raise once the
\* task is collected.
C14_ConfigErrorPropagates ==
    \A i \in yielded : futures[i].config_error => pc = "raised"

\* C18: the scenario's run returns exactly 4 listings, whichever task
\* completes first.
C18_FourUniqueListings ==
    (queries = ScenarioQueries /\ pc = "returned") => Len(returned) = 4

\* C18's case: the routed query's task completed first (3 unique listings
\* after the first completion), the other one second, and 4 were returned.
C18_Witness ==
    /\ queries = ScenarioQueries
    /\ pc = "returned"
    /\ Len(progress_calls) = 2
    /\ progress_calls[1] = <<1, 2, 3>>
    /\ progress_calls[2] = <<2, 2, 4>>
    /\ Len(returned) = 4

\* the listings the loop has read from the tasks collected so far
AcceptedListings ==
    UNION {{ResultOf(i)[k] : k \in 1..Len(ResultOf(i))} : i \in Accepted}

\* C21: listings with different (title, company_name, location) triples get
\* different dedup keys, fields holding "|" included, so that the stored
\* collection, and the returned list, keep one listing per triple read.
C21_KeySeparatesTriples ==
    LET triples == {Triple(job) : job \in AcceptedListings}
        keys == {DedupKey(job) : job \in AcceptedListings}
    IN  /\ Cardinality(keys) = Cardinality(triples)
        /\ pc \in {"callbacks", "wait", "shutdown", "returned"} =>
              Len(all_jobs) = Cardinality(triples)
        /\ pc = "returned" => Len(returned) = Cardinality(triples)

\* the quota source key of every child is the source tag of its listings
KeysMatchTags ==
    \A i \in 1..Len(provider.providers) :
        provider_quota_source_key(provider.providers[i]) = SourceKey(provider.providers[i].tag)

\* right after a merge, every child's listings number at least 30 among the
\* stored ones and the unique count has reached the effective minimum
ChildFloorsReached ==
    /\ pc = "callbacks"
    /\ min_unique_arg > 0
    /\ Len(all_jobs) >= min_unique_jobs
    /\ \A i \in 1..Len(provider.providers) :
          Contributed(SourceKey(provider.providers[i].tag)) >= MIN_JOBS_PER_PROVIDER

\* C20: for the combined provider get_provider builds, once both children
\* have contributed at least 30 unique listings and the unique count has
\* reached the effective minimum, the quota keys equal the listings' source
\* tags and early stop is signalled.
C20_BuiltProviderStopsEarly ==
    (provider = get_provider /\ ChildFloorsReached) => (KeysMatchTags /\ early_stop)

(***************************************************************************)
(* Properties of CombinedSearchProvider.search under failing children and  *)
(* non-positive budgets                                                    *)
(***************************************************************************)
RECURSIVE MergedCalls(_)
\* the dict built from what the first n child calls returned, the raising
\* calls left out
MergedCalls(n) ==
    IF n = 0 THEN <<>>
    ELSE IF cs_calls[n].raised THEN MergedCalls(n - 1)
    ELSE MergeByKey(MergedCalls(n - 1), cs_calls[n].jobs)

\* C15: CombinedSearchProvider.search does not raise; when it has returned
\* with a positive budget, every selected child was invoked, in order, the
\* ones after a raising child included, and the result is the merge of what
\* the non-raising children returned, cut to max_results.
C15_FailingChildSkipped ==
    /\ cs_pc # "raised"
    /\ (cs_pc = "done" /\ cs_providers # <<>> /\ cs_max_results > 0) =>
          /\ Len(cs_calls) = Len(cs_selected)
          /\ \A c \in 1..Len(cs_calls) :
                cs_calls[c].provider = cs_providers[cs_selected[c]].name
          /\ cs_result = Truncate(Values(MergedCalls(Len(cs_calls))), cs_max_results)

\* C15's case: of three children the first raised, the two after it were
\* still invoked, and the second one's listings were returned.
C15_Witness ==
    /\ cs_pc = "done"
    /\ Len(cs_calls) = 3
    /\ cs_calls[1].raised
    /\ ~cs_calls[2].raised /\ cs_calls[2].jobs # <<>>
    /\ cs_result # <<>>
    /\ \A n \in 1..Len(cs_result) : cs_result[n].source # cs_providers[1].tag

\* C19: a search with max_results <= 0 invokes no child and, once over, has
\* returned the empty list, whatever the query.
C19_NonPositiveBudgetNoCalls ==
    cs_max_results <= 0 =>
        /\ cs_calls = <<>>
        /\ cs_pc \in {"idle", "start", "done"}
        /\ cs_pc = "done" => cs_result = <<>>

\* C19's case: a query routed to an existing child, with a budget of -1, has
\* returned.
C19_Witness ==
    /\ cs_pc = "done"
    /\ cs_max_results = -1
    /\ Len(cs_providers) = 2
    /\ Len(cs_selected) = 1
    /\ cs_result = <<>>
    /\ cs_calls = <<>>

(***************************************************************************)
(* Properties of parse_provider_query                                      *)
(***************************************************************************)
\* the character of s at position i
CharAt(s, i) == SubSeq(s, i, i)

\* t is s without its leading and trailing blanks
IsStripOf(t, s) ==
    \E i \in 0..Len(s) : \E j \in i..Len(s) :
        /\ t = SubSeq(s, i + 1, j)
        /\ \A k \in (1..i) \cup ((j + 1)..Len(s)) : CharAt(s, k) = " "
        /\ t # "" => (CharAt(t, 1) # " " /\ CharAt(t, Len(t)) # " ")

\* the position of the first "::" of s, 0 if there is none
FirstSeparator(s) ==
    LET here(i) == CharAt(s, i) = ":" /\ CharAt(s, i + 1) = ":"
    IN  IF \E i \in 1..(Len(s) - 1) : here(i)
        THEN CHOOSE i \in 1..(Len(s) - 1) : here(i) /\ \A b \in 1..(i - 1) : ~here(b)
        ELSE 0

\* what lies between "provider=" and the first "::"
NamePart(s) == SubSeq(s, Len("provider=") + 1, FirstSeparator(s) - 1)

\* what lies after the first "::"
TextPart(s) == SubSeq(s, FirstSeparator(s) + 2, Len(s))

\* s starts with "provider=" and has a "::" with a non-blank name before the
\* first one and a non-blank text after it
IsRouted(s) ==
    /\ Len(s) >= Len("provider=")
    /\ SubSeq(s, 1, Len("provider=")) = "provider="
    /\ FirstSeparator(s) # 0
    /\ \E k \in 1..Len(NamePart(s)) : CharAt(NamePart(s), k) # " "
    /\ \E k \in 1..Len(TextPart(s)) : CharAt(TextPart(s), k) # " "

\* C16: parse_provider_query returns for every string, changes nothing, and
\* returns a (name, text) pair, both stripped and non-blank, exactly for the
\* inputs that start with "provider=" and hold a "::" with a non-blank name
\* before and a non-blank text after the first one; for every other input
\* it returns (None, input).
C16_ParseProviderQuery ==
    pq_pc = "done" =>
        /\ Len(pq_result) = 2
        /\ IF IsRouted(pq_input)
           THEN /\ pq_result[1] # None /\ pq_result[1] # ""
                /\ pq_result[2] # ""
                /\ IsStripOf(pq_result[1], NamePart(pq_input))
                /\ IsStripOf(pq_result[2], TextPart(pq_input))
           ELSE pq_result = <<None, pq_input>>

\* C16's case: a routed query with a padded name.
C16_Witness ==
    /\ pq_pc = "done"
    /\ pq_input = "provider= A::q"
    /\ pq_result = <<"A", "q">>

(***************************************************************************)
(* Properties of the apply options                                         *)
(***************************************************************************)
\* the URL passes the block-list filter
PassesBlockList(url) == \A blocked \in BLOCKED_PORTALS : ~Contains(Lower(url), blocked)

\* C17: every apply option of an emitted listing, of either provider, has a
\* URL that passes the block-list filter.
C17_ApplyOptionsPassBlockList ==
    lo_pc = "emitted" =>
        \A n \in 1..Len(lo_options) : PassesBlockList(lo_options[n].url)

(***************************************************************************)
(* Properties of the retry loops                                           *)
(***************************************************************************)
\* the call is over
BaOver == ba_pc \in {"returned", "raised"}

\* every request made was answered with status st
AllStatus(st) ==
    \A n \in 1..Len(ba_responses) : ~ba_responses[n].error /\ ba_responses[n].status = st

\* every request made failed with a network error
AllNetworkErrors == \A n \in 1..Len(ba_responses) : ba_responses[n].error

\* C8: no call makes more than 3 requests, and a call that only ever saw 503,
\* or only ever saw network errors, ends after exactly 3 requests by returning
\* its empty result.
C8_ThreeAttemptsThenEmpty ==
    /\ Len(ba_responses) <= 3
    /\ (BaOver /\ (AllStatus(503) \/ AllNetworkErrors)) =>
          /\ Len(ba_responses) = 3
          /\ ba_pc = "returned"
          /\ ba_raised = None
          /\ ba_result = (IF ba_path = "_get_with_retry" THEN None ELSE "{}")

\* C8's case: the detail page answered 503 three times and the call returned.
C8_Witness ==
    /\ ba_path = "_fetch_detail"
    /\ ba_pc = "returned"
    /\ Len(ba_responses) = 3
    /\ AllStatus(503)

\* the n-th request was the call's last and the call ended with the empty result
EndedEmptyAt(n) ==
    /\ n = Len(ba_responses)
    /\ ba_pc = "returned"
    /\ ba_result = (IF ba_path = "_get_with_retry" THEN None ELSE "{}")

\* C9: a request answered with 403, 429 or a 5xx status, or failing with a
\* network error, does not end the call while attempts remain; one answered
\* with another 4xx status ends it with the empty result.
C9_RetryOn5xx ==
    \A n \in 1..Len(ba_responses) :
        LET r == ba_responses[n]
        IN  /\ (r.error \/ r.status \in {403, 429} \/ r.status \in 500..599) =>
                  (n < 3 => (Len(ba_responses) > n \/ ~BaOver))
            /\ (~r.error /\ r.status \in (400..499) \ {403, 429}) => EndedEmptyAt(n)

\* the detail page's last answer was a failure to parse or a non-200 status
LastIsFailure ==
    /\ ba_responses # <<>>
    /\ LET r == ba_responses[Len(ba_responses)]
       IN  ~r.error /\ (r.status # 200 \/ r.body \in {"invalid", "array"})

\* C10: _fetch_detail never raises, and a call that ended on a 200 page whose
\* ng-state is not valid JSON or not a JSON object, or on a non-200 answer,
\* returned {}.
C10_FetchDetailNeverRaises ==
    ba_path = "_fetch_detail" =>
        /\ ba_pc # "raised"
        /\ (BaOver /\ LastIsFailure) => ba_result = "{}"

\* the last answer of the call
LastResponse == ba_responses[Len(ba_responses)]

\* C11: a call of _fetch_detail that ended on a 200 page whose first ng-state
\* tag holds a JSON object with a "jobdetail" member returned that member, the
\* first tag's and no later tag's; a call answered at once with a 200 page
\* without the tag returned {} after that single request, without raising.
C11_FirstNgStateTag ==
    (ba_path = "_fetch_detail" /\ ba_responses # <<>> /\ BaOver
        /\ ~LastResponse.error /\ LastResponse.status = 200) =>
        LET tags == NgStateTags(LastResponse.body)
        IN  /\ (tags # <<>> /\ tags[1] = "object with jobdetail") =>
                  (ba_pc = "returned" /\ ba_result = "state['jobdetail']")
            /\ (tags # <<>> /\ tags[1] = "object with other jobdetail") =>
                  (ba_pc = "returned" /\ ba_result = "the second tag's state['jobdetail']")
            /\ tags = <<>> =>
                  /\ ba_pc = "returned"
                  /\ ba_result = "{}"
                  /\ ba_raised = None
                  /\ \A n \in 1..(Len(ba_responses) - 1) :
                        ba_responses[n].error \/ ba_responses[n].status # 200

\* C11's case: a page with two ng-state tags holding different jobdetail
\* objects, answered after one retried request; the first tag's was returned.
C11_Witness ==
    /\ ba_path = "_fetch_detail"
    /\ ba_pc = "returned"
    /\ Len(ba_responses) = 2
    /\ LastResponse.body = "object with jobdetail; object with other jobdetail"
    /\ ba_result = "state['jobdetail']"

\* C30: a call that is over and made n requests has slept exactly n - 1
\* times, with delays that grow from one sleep to the next, so that no sleep
\* follows its final attempt.
C30_SleepOnlyBetweenAttempts ==
    (BaOver /\ ba_responses # <<>>) =>
        /\ Len(ba_sleeps) = Len(ba_responses) - 1
        /\ \A n \in 1..(Len(ba_sleeps) - 1) : ba_sleeps[n] < ba_sleeps[n + 1]

(***************************************************************************)
(* Properties of BundesagenturProvider.search                              *)
(***************************************************************************)
\* C12: a finished search has returned at most max_results listings, and
\* exactly max_results when the pages it fetched held at least that many
\* records with an identifier.
C12_AtMostMaxResults ==
    bs_pc = "done" =>
        /\ bs_result <= bs_max_results
        /\ (Strip(bs_query) # "" /\ bs_items >= bs_max_results) =>
              bs_result = bs_max_results

\* C12's case: max_results = 3 against a first page of 50 records with a
\* declared total of 60: one request, 3 listings.
C12_Witness ==
    /\ bs_pc = "done"
    /\ bs_max_results = 3
    /\ bs_requests = <<[page |-> 1, size |-> 3]>>
    /\ bs_items = 50
    /\ bs_result = 3

\* the n-th request asked for page n with page size min(max_results, 50), and
\* no search makes more than 100 of them
PagesInOrder ==
    /\ Len(bs_requests) <= MAX_PAGES
    /\ \A n \in 1..Len(bs_requests) :
          /\ bs_requests[n].page = n
          /\ bs_requests[n].size = Min2(bs_max_results, PAGE_SIZE_CAP)

\* the loop is still running only if the latest page held records and none
\* of the stated reasons to stop has occurred
StillLooping ==
    bs_pc = "loop" =>
        /\ bs_page = Len(bs_requests) + 1
        /\ bs_requests # <<>> =>
              /\ bs_items < bs_max_results
              /\ ~bs_answer.none /\ bs_answer.records > 0

\* the loop of a search with a non-blank query is over
LoopOver == bs_pc \in {"return", "done"} /\ Strip(bs_query) # ""

\* the latest request got a page without usable records
EmptyPage == ~bs_answer.none /\ bs_answer.records = 0

\* C22 as stated: pages 1, 2, 3, ... are requested in order with page size
\* min(max_results, 50), at most 100 of them, and the loop ends only with
\* max_results records accumulated, on a page without usable records, or
\* after the 100th request.
C22_PageLoop ==
    /\ PagesInOrder
    /\ StillLooping
    /\ LoopOver =>
          \/ bs_items >= bs_max_results
          \/ EmptyPage
          \/ Len(bs_requests) = MAX_PAGES

\* C22 amended: the loop also ends on a request that failed for good, and
\* when the records accumulated reach the total the page declares
\* (maxErgebnisse, 0 when absent).
C22_PageLoopOrTotalReached ==
    /\ PagesInOrder
    /\ StillLooping
    /\ LoopOver =>
          \/ bs_items >= bs_max_results
          \/ EmptyPage
          \/ Len(bs_requests) = MAX_PAGES
          \/ bs_answer.none
          \/ bs_answer.records > 0 /\ bs_items >= bs_answer.total

\* C22's case: the search ended after two requests, the second page bringing
\* the records to the total of 60 it declared, of the 120 asked for.
C22_Witness ==
    /\ bs_pc = "done"
    /\ bs_max_results = MaxResults
    /\ Len(bs_requests) = 2
    /\ bs_answer.records > 0
    /\ bs_answer.total = PAGE_SIZE_CAP + 10
    /\ bs_items \in (PAGE_SIZE_CAP + 10)..(MaxResults - 1)
    /\ bs_result = bs_items

\* C22's other case: the 100th page was requested and the search ended for
\* that reason alone.
C22_WitnessCeiling ==
    /\ bs_pc = "done"
    /\ Len(bs_requests) = MAX_PAGES
    /\ bs_items < bs_max_results
    /\ ~bs_answer.none /\ bs_answer.records > 0
    /\ bs_items < bs_answer.total

(***************************************************************************)
(* Properties of search_jobs                                               *)
(***************************************************************************)
\* C29: the first request carries no continuation token and every later one
\* the token of the page before it; the loop goes on exactly while the
\* latest page held listings and a token and fewer than num_results
\* listings are accumulated; the call returns at most num_results listings
\* after at most num_results requests.
C29_ContinuationTokens ==
    /\ \A n \in 1..Len(sj_requests) :
          sj_requests[n] = (IF n = 1 THEN None ELSE sj_answers[n - 1].token)
    /\ \A n \in 1..(Len(sj_answers) - 1) :
          sj_answers[n].listings > 0 /\ Truthy(sj_answers[n].token)
    /\ Len(sj_requests) <= sj_num_results
    /\ sj_pc \in {"return", "done"} =>
          \/ sj_all_jobs >= sj_num_results
          \/ sj_answers # <<>> /\ sj_answers[Len(sj_answers)].listings = 0
          \/ sj_answers # <<>> /\ ~Truthy(sj_answers[Len(sj_answers)].token)
    /\ (sj_pc = "loop" /\ sj_answers # <<>>) =>
          /\ sj_answers[Len(sj_answers)].listings > 0
          /\ Truthy(sj_answers[Len(sj_answers)].token)
    /\ sj_pc = "done" =>
          /\ sj_result <= sj_num_results
          /\ sj_result = Min2(sj_all_jobs, sj_num_results)

\* C29's case: three requests, the second and third carrying the tokens of
\* the first and second page, ended by a page without listings.
C29_Witness ==
    /\ sj_pc = "done"
    /\ sj_requests = <<None, "token-1", "token-2">>
    /\ sj_answers[3].listings = 0
    /\ sj_result = 2

(***************************************************************************)
(* Properties of _enrich and _get_detail                                   *)
(***************************************************************************)
EnReturned == en_pc = "done"

AllWorkersFinished == \A i \in 1..Len(en_items) : en_futures[i].state = "done"

OneListingPerItemInOrder ==
    /\ Len(en_result) = Len(en_items)
    /\ \A k \in 1..Len(en_items) : en_result[k].refnr = en_items[k]

\* the fetches made for the reference number of item k
FetchesFor(k) == {j \in 1..Len(en_items) : en_items[j] = en_items[k]}

\* C25 as stated: _enrich returns only after every detail-fetch worker has
\* finished, with exactly one listing per input record, in input order, each
\* carrying the detail its own fetch returned, whatever the completion order.
C25_EnrichJoinsAndKeepsOrder ==
    EnReturned =>
        /\ AllWorkersFinished
        /\ OneListingPerItemInOrder
        /\ \A k \in 1..Len(en_items) : en_result[k].detail = Returned(en_futures[k])

\* C25 amended: _enrich returns only after every detail-fetch worker has
\* finished, with exactly one listing per input record, in input order, each
\* carrying a detail that a fetch for the record's reference number returned;
\* it is the record's own fetch when no other input record has that number.
C25_EnrichJoinsAndKeepsOrderPerRefnr ==
    EnReturned =>
        /\ AllWorkersFinished
        /\ OneListingPerItemInOrder
        /\ \A k \in 1..Len(en_items) :
              en_result[k].detail \in {Returned(en_futures[j]) : j \in FetchesFor(k)}

\* two different records whose fetches finished with different answers
C25_Witness ==
    /\ EnReturned
    /\ en_items = <<"r1", "r2">>
    /\ en_result[1].detail = ApiDetail("r1")
    /\ en_result[2].detail = HtmlDetail("r2")

\* one record listed twice, the two fetches disagreeing
C25_WitnessRepeated ==
    /\ EnReturned
    /\ en_items = <<"r1", "r1">>
    /\ Returned(en_futures[1]) = ApiDetail("r1")
    /\ Returned(en_futures[2]) = EMPTY_DICT
    /\ en_result[1].detail = EMPTY_DICT

\* C26: under api_then_html the HTML scrape is called exactly when the
\* structured call returned an empty object, and after it; under api_only
\* the HTML scrape is never called; under html_only the structured call is
\* never made.
C26_DetailStrategy ==
    \A i \in 1..Len(en_items) :
        LET f == en_futures[i] IN
        /\ en_strategy = "api_only" => f.calls \in {<<>>, <<"api">>}
        /\ en_strategy = "html_only" => f.calls \in {<<>>, <<"html">>}
        /\ en_strategy = "api_then_html" =>
              /\ f.calls \in {<<>>, <<"api">>, <<"api", "html">>}
              /\ f.state = "done" => (f.calls = <<"api", "html">> <=> f.api = EMPTY_DICT)
              /\ f.state = "api_done" => f.api = EMPTY_DICT

\* api_then_html: one worker answered from the structured call alone, the
\* other fell back to the HTML page
C26_Witness ==
    /\ EnReturned
    /\ en_strategy = "api_then_html"
    /\ Len(en_items) = 2
    /\ en_futures[1].calls = <<"api">>
    /\ en_futures[1].result = ApiDetail(en_items[1])
    /\ en_futures[2].calls = <<"api", "html">>
    /\ en_futures[2].result = HtmlDetail(en_items[2])

(***************************************************************************)
(* Properties of search_all_queries: the end of a run                      *)
(***************************************************************************)
\* the loop was left on an early stop
StoppedEarly == early_stop /\ pc \in {"shutdown", "returned"}

\* a task that is running is never cancelled: it stays running or finishes
RunningTasksFinish ==
    \A i \in DOMAIN futures :
        futures[i].state = "running" => futures'[i].state \in {"running", "done"}

\* after the loop was left nothing is merged, reported or handed out any more
OutputsDiscarded ==
    StoppedEarly =>
        /\ all_jobs' = all_jobs
        /\ source_counts' = source_counts
        /\ yielded' = yielded
        /\ progress_calls' = progress_calls
        /\ found_batches' = found_batches

\* the function has returned: no task is running or waiting, and the list is
\* the stored collection, made only of what the loop read
ReturnedAfterAllFinished ==
    pc = "returned" =>
        /\ \A i \in DOMAIN futures : futures[i].state \in {"done", "cancelled"}
        /\ returned = Values(all_jobs)
        /\ \A k \in 1..Len(returned) : returned[k] \in AcceptedListings

\* C23: after an early stop the tasks already running finish, their outputs
\* are discarded, search_all_queries returns only after they have finished,
\* and the returned list is made of what was read before the stop, whether a
\* remaining task was cancelled or ran.
C23_RunningTasksJoinedAndDiscarded ==
    /\ [][RunningTasksFinish /\ OutputsDiscarded]_vars
    /\ []ReturnedAfterAllFinished

\* a task that was running at the stop called the provider, found listings
\* and finished; the loop never read it and none of its listings is returned
C23_Witness ==
    /\ early_stop
    /\ pc = "returned"
    /\ \E i \in DOMAIN futures :
          /\ i \notin yielded
          /\ futures[i].state = "done"
          /\ futures[i].called
          /\ futures[i].jobs # <<>>
          /\ \E k \in 1..Len(futures[i].jobs) :
                \A r \in 1..Len(returned) : returned[r] # futures[i].jobs[k]

RECURSIVE Flatten(_)
\* the batches one after the other
Flatten(batches) ==
    IF batches = <<>> THEN <<>> ELSE Head(batches) \o Flatten(Tail(batches))

Elements(list) == {list[k] : k \in 1..Len(list)}

\* C24: the batches handed to on_jobs_found are non-empty and pairwise
\* disjoint, and put one after the other in call order they are the returned
\* list, with or without an early stop.
C24_BatchesPartitionReturned ==
    /\ \A b \in 1..Len(found_batches) : found_batches[b] # <<>>
    /\ \A a, b \in 1..Len(found_batches) :
          a < b => Elements(found_batches[a]) \cap Elements(found_batches[b]) = {}
    /\ pc = "returned" => Flatten(found_batches) = returned

\* two calls, the second without some listing of its task that the first
\* batch already held, in a run that stopped early
C24_Witness ==
    /\ pc = "returned"
    /\ early_stop
    /\ Len(found_batches) = 2
    /\ \E i \in Accepted :
          /\ Elements(found_batches[2]) \subseteq Elements(ResultOf(i))
          /\ Elements(ResultOf(i)) \cap Elements(found_batches[1]) # {}

\* a completion that found nothing new: on_progress fired, on_jobs_found not
C24_WitnessNoCall ==
    /\ pc = "returned"
    /\ ~early_stop
    /\ Len(progress_calls) = 2
    /\ Len(found_batches) = 1

\* the task whose result this step merges
MergedNow == yielded' \ yielded

\* every new entry of all_jobs is the first listing with its key in the list
\* the step merges, and the key was not stored before
NewEntriesAreFirstOfKey ==
    \A k \in (Len(all_jobs) + 1)..Len(all_jobs') :
        /\ all_jobs'[k].key \notin Keys(all_jobs)
        /\ \E i \in MergedNow : \E m \in 1..Len(ResultOf(i)) :
              /\ ResultOf(i)[m] = all_jobs'[k].job
              /\ DedupKey(ResultOf(i)[m]) = all_jobs'[k].key
              /\ \A n \in 1..(m - 1) : DedupKey(ResultOf(i)[n]) # all_jobs'[k].key

\* what is stored stays stored, at its place and with its listing
StoredEntriesKept ==
    /\ Len(all_jobs') >= Len(all_jobs)
    /\ \A k \in 1..Len(all_jobs) : all_jobs'[k] = all_jobs[k]

\* C27: of the listings with one dedup key, across tasks or within one task's
\* list, the one kept is the first merged (earliest task in completion order,
\* earliest in that task's list), and a stored listing is never replaced.
C27_FirstWriterWins ==
    /\ [][StoredEntriesKept /\ NewEntriesAreFirstOfKey]_vars
    /\ [](pc = "returned" =>
            /\ returned = Values(all_jobs)
            /\ \A job \in AcceptedListings : DedupKey(job) \in Keys(all_jobs))

\* two tasks were merged whose lists hold different listings with one key:
\* the returned list has the one of a task and not the other task's
C27_Witness ==
    /\ pc = "returned"
    /\ \E i, j \in Accepted :
          /\ i # j
          /\ \E a \in Elements(ResultOf(i)), b \in Elements(ResultOf(j)) :
                /\ DedupKey(a) = DedupKey(b)
                /\ a # b
                /\ a \in Elements(returned)
                /\ b \notin Elements(returned)

\* one task's list holds two different listings with one key: the returned
\* list has the earlier one and not the later
C27_WitnessWithinTask ==
    /\ pc = "returned"
    /\ \E i \in Accepted : \E m, n \in 1..Len(ResultOf(i)) :
          /\ m < n
          /\ DedupKey(ResultOf(i)[m]) = DedupKey(ResultOf(i)[n])
          /\ ResultOf(i)[m] # ResultOf(i)[n]
          /\ ResultOf(i)[m] \in Elements(returned)
          /\ ResultOf(i)[n] \notin Elements(returned)

(***************************************************************************)
(* Properties of the loop's lock and callbacks                             *)
(***************************************************************************)
CallbackCalls == {"on_progress", "on_jobs_found"}
CallbackReturns == {"on_progress returned", "on_jobs_found returned"}

\* the callbacks that were entered and have not returned, after n events
OpenCallbacks(n) ==
    Cardinality({k \in 1..n : lk_events[k].what \in CallbackCalls})
    - Cardinality({k \in 1..n : lk_events[k].what \in CallbackReturns})

\* the on_jobs_found call at event k follows the return of the on_progress
\* call for the same future
ProgressCameFirst(k) ==
    \E p \in 1..(k - 1) :
        /\ lk_events[p].what = "on_progress returned"
        /\ lk_events[p].future = lk_events[k].future

\* C28: on_progress and on_jobs_found are entered and run only while the lock
\* is not held; what the collecting thread does with the lock held is the
\* in-memory merge and count; the callbacks are made by the collecting thread
\* one at a time, on_progress before on_jobs_found for a completion.
C28_CallbacksOutsideLock ==
    /\ lk_pc \in {"in on_progress", "in on_jobs_found"} => ~lk_lock
    /\ \A k \in 1..Len(lk_events) :
          LET e == lk_events[k] IN
          /\ e.what \in CallbackCalls \cup CallbackReturns => ~e.held
          /\ e.held => e.what \in {"merge", "count"}
          /\ e.what \in {"merge", "count"} => e.held
          /\ OpenCallbacks(k) \in {0, 1}
          /\ (e.what = "on_jobs_found" /\ lk_args.on_progress) => ProgressCameFirst(k)

\* on_jobs_found is running for the first completion, after on_progress has
\* returned, while the worker of another task is inside provider.search
C28_Witness ==
    /\ lk_pc = "in on_jobs_found"
    /\ ~lk_lock
    /\ \E i \in DOMAIN lk_tasks : lk_tasks[i].state = "running"
    /\ \E p \in 1..Len(lk_events) :
          lk_events[p].what = "on_progress returned" /\ lk_events[p].future = lk_future

\* a worker is inside provider.search while the collecting thread holds the
\* lock
C28_WitnessLocked ==
    /\ lk_lock
    /\ \E i \in DOMAIN lk_tasks : lk_tasks[i].state = "running"

====
